---- MODULE Spec2Model ----
(***************************************************************************)
(* Constellation: a model of the USN refresh engine, tag merge, the item   *)
(* and tag-group repositories, database start-up, the thumbnail service    *)
(* and its cache, settings, search history and CQL search, written from    *)
(* the Rust sources.                                                       *)
(*                                                                         *)
(* Each subsystem is a state machine of its own over its own variables:    *)
(* Spec, ResumeSpec, PendingSpec, ConcurrentSpec and RepeatFairSpec        *)
(* (refresh engine), MergeSpec (tag merge), DbSpec and UpdateSpec          *)
(* (repositories), CreateSpec, TemplateSpec and TagSearchSpec (service     *)
(* calls on the tables), StartupSpec (init_database), ThumbSpec,           *)
(* ThumbFairSpec and ThumbLiveSpec (thumbnail requests), CacheSpec (cache  *)
(* eviction), SettingsSpec, SearchSpec (search history) and CqlSpec (CQL   *)
(* queries).                                                               *)
(***************************************************************************)
EXTENDS Integers, Sequences, FiniteSets, TLC

VARIABLES
    \* ---- the machine outside the program
    fs,         \* fs[d][frn]: the path of the file with that FRN on volume d, or NoPath
    nextFrn,    \* nextFrn[d]: the FRN the next file created on d receives
    journal,    \* journal[d]: the volume's USN change journal
    now,        \* unixepoch()
    events,     \* file-system and settings events so far (bounded by MaxEvents)
    \* ---- the database
    items,      \* items table: id -> row
    usn_state,  \* usn_state table: drive letter -> row or NoRow
    settings,   \* settings table: key -> stored value or NoValue
    \* ---- the refresh call in flight
    rf,         \* locals of UsnRefreshService::refresh and of the function it is in
    passes,     \* refresh calls started so far (bounded by MaxPasses)
    faults,     \* transient database failures injected so far (bounded by MaxFaults)
    \* ---- tag merge
    tags,       \* tags table: the ids of the existing tags
    item_tags,  \* item_tags table: a set of <<item_id, tag_id>> rows
    tagSeq,     \* sqlite_sequence of tags: the last id AUTOINCREMENT handed out
    mg,         \* locals of TagService::merge
    \* ---- the tables behind the item, tag and tag-group repositories, row by row
    db,         \* the database file: tag_groups, tags, items, item_tags (a bag of rows)
    call,       \* the last repository call: its name, its id argument, what it returned
    \* ---- the thumbnail pipeline
    semaphore,  \* ThumbnailService.semaphore: the permits available
    thumb,      \* thumb[r]: where task r is inside get_thumbnail, the file it asks
                \* for, the answer on its one-shot channel, and whether its request
                \* was sent after another request had failed
    chan,       \* the mpsc channel of ComWorker: the requests sent and not yet received
    worker,     \* the com-thumbnail-worker thread: where it is, the requests it has
                \* received and not answered, whether a request has failed so far
    \* ---- the thumbnail disk cache
    cache,      \* the files under base_dir: name -> [size, mtime]
    ev,         \* locals of ThumbnailCache::evict_to_limit; and, for the claims, the
                \* entries it deleted, whether a removal failed, whether the cache
                \* was written to while it ran
    clock,      \* SystemTime::now() as the cache calls see it
    used,       \* for the claims: used[key] is when the entry was last written or
                \* read, and whether that was a read
    \* ---- the settings service
    setlog,     \* for the claims: the set and reset calls made so far, in order
    \* ---- search and its history
    hist,       \* the tables search_histories and search_history_tags, the id
                \* handed out last, and unixepoch()
    hlog,       \* for the claims: the calls of the search service so far, in order
    \* ---- a CQL search
    cql,        \* locals of SqliteSearchRepository::search_cql: the query, the
                \* expression parse_cql built, the fragment expr_to_sql returned
    \* ---- service calls that run beside each other on the tables of db
    gc,         \* gc[c]: locals of task c inside TagGroupService::create
    tp,         \* locals of TagTemplateService::apply_to_item
    \* ---- a second refresh call
    other       \* locals of the refresh call that is in flight beside the one of
                \* rf and is not taking a step now

usnVars   == <<fs, nextFrn, journal, now, events, items, usn_state, settings, rf, passes, faults>>
mergeVars == <<tags, item_tags, tagSeq, mg>>
dbVars    == <<db, call>>
thumbVars == <<semaphore, thumb, chan, worker>>
cacheVars == <<cache, ev, clock, used>>
setVars   == <<setlog>>
histVars  == <<hist, hlog>>
cqlVars   == <<cql>>
svcVars   == <<gc, tp>>
taskVars  == <<other>>
vars      == <<fs, nextFrn, journal, now, events, items, usn_state, settings, rf, passes,
               faults, tags, item_tags, tagSeq, mg, db, call, semaphore, thumb, chan,
               worker, cache, ev, clock, used, setlog, hist, hlog, cql, gc, tp,
               other>>
\* what the actions of one subsystem leave alone
nonUsnVars   == <<mergeVars, dbVars, thumbVars, cacheVars, setVars, histVars, cqlVars, svcVars,
                 taskVars>>
nonMergeVars == <<usnVars, dbVars, thumbVars, cacheVars, setVars, histVars, cqlVars, svcVars,
                 taskVars>>
nonDbVars    == <<usnVars, mergeVars, thumbVars, cacheVars, setVars, histVars, cqlVars, svcVars,
                 taskVars>>
nonThumbVars == <<usnVars, mergeVars, dbVars, cacheVars, setVars, histVars, cqlVars, svcVars,
                 taskVars>>
nonCacheVars == <<usnVars, mergeVars, dbVars, thumbVars, setVars, histVars, cqlVars, svcVars,
                 taskVars>>
nonHistVars  == <<usnVars, mergeVars, dbVars, thumbVars, cacheVars, setVars, cqlVars, svcVars,
                 taskVars>>
nonCqlVars   == <<usnVars, mergeVars, dbVars, thumbVars, cacheVars, setVars, histVars, svcVars,
                 taskVars>>
nonSvcVars   == <<usnVars, mergeVars, thumbVars, cacheVars, setVars, histVars, cqlVars,
                 taskVars>>
\* what a call of the settings service leaves alone: all but the settings table
nonSetVars   == <<fs, nextFrn, journal, now, events, items, usn_state, rf, passes, faults,
                  mergeVars, dbVars, thumbVars, cacheVars, histVars, cqlVars, svcVars,
                  taskVars>>

(***************************************************************************)
(* Bounds of the model.                                                    *)
(***************************************************************************)
MaxEvents == 2      \* events of the outside world in one behaviour
MaxPasses == 2      \* refresh calls in one behaviour
MaxDrives == 2      \* length of the drive list handed to refresh
MaxFaults == 1      \* transient database failures in one behaviour
MaxTags   == 2      \* tags created in one behaviour

(***************************************************************************)
(* Strings.  Paths are real strings; the helpers compute on them as the    *)
(* Rust code does.                                                         *)
(***************************************************************************)
Sep == "\\"

Contains(s, pat) ==
    \E i \in 1..(Len(s) - Len(pat) + 1) : SubSeq(s, i, i + Len(pat) - 1) = pat

\* str::rsplit_once('\\').map(|(_, n)| n).unwrap_or(path)
LastSep(s) ==
    LET idx == {i \in 1..Len(s) : SubSeq(s, i, i) = Sep}
    IN  IF idx = {} THEN 0 ELSE CHOOSE i \in idx : \A j \in idx : j <= i

FileName(path) == SubSeq(path, LastSep(path) + 1, Len(path))

\* char::to_ascii_uppercase on the letters drive letters are written with
ToAsciiUpper(c) ==
    CASE c = "c" -> "C"
      [] c = "d" -> "D"
      [] OTHER   -> c

\* path.chars().next().unwrap_or('\0').to_ascii_uppercase()
SourceDrive(path) == IF Len(path) = 0 THEN "" ELSE ToAsciiUpper(SubSeq(path, 1, 1))

\* str::trim
RECURSIVE TrimStart(_)
TrimStart(s) ==
    IF Len(s) > 0 /\ SubSeq(s, 1, 1) = " " THEN TrimStart(SubSeq(s, 2, Len(s))) ELSE s

RECURSIVE TrimEnd(_)
TrimEnd(s) ==
    IF Len(s) > 0 /\ SubSeq(s, Len(s), Len(s)) = " "
    THEN TrimEnd(SubSeq(s, 1, Len(s) - 1)) ELSE s

Trim(s) == TrimEnd(TrimStart(s))

\* FilePath::validate_no_traversal: a "." or ".." component, or one of the
\* substrings "..", "./", ".\"
ValidateNoTraversal(path) ==
    /\ path # "."
    /\ ~Contains(path, "..")
    /\ ~Contains(path, "./")
    /\ ~Contains(path, "." \o Sep)

\* FilePath::new: [ok |-> accepted, value |-> the stored string]
FilePathNew(path) ==
    LET trimmed == Trim(path)
    IN  IF trimmed = "" \/ ~ValidateNoTraversal(trimmed)
        THEN [ok |-> FALSE, value |-> ""]
        ELSE [ok |-> TRUE, value |-> trimmed]

(***************************************************************************)
(* The outside world: two NTFS volumes, their files and their journals.    *)
(***************************************************************************)
Drives   == {"C", "D"}
RelPaths == {"old\\a.txt", "old\\b.txt", "new\\a.txt", "new\\b..txt"}
PathsOn(d) == {d \o ":" \o Sep \o r : r \in RelPaths}
NoPath   == ""
MaxFrn   == 3
Frns     == 1..MaxFrn
OtherFrn == MaxFrn + 1      \* a file of the volume that is not followed here

\* USN reason flags (usn_refresh_service.rs:22-26, reader.rs:15-19); a
\* record's reason is the set of its flags, and `reason & mask != 0` is a
\* non-empty intersection.
FILE_CREATE     == "FILE_CREATE"
FILE_DELETE     == "FILE_DELETE"
RENAME_OLD_NAME == "RENAME_OLD_NAME"
RENAME_NEW_NAME == "RENAME_NEW_NAME"
CLOSE           == "CLOSE"
HasReason(r, mask) == r.reason \cap mask # {}

ItemIds == {1, 2, 3}
NoRow   == [none |-> TRUE]
NoValue == "<unset>"

Rec(u, f, why) == [usn |-> u, frn |-> f, reason |-> why]

\* Appends records with the given (frn, reason) pairs, one USN each.
Append2(j, pairs) ==
    [j EXCEPT !.recs = j.recs \o [k \in 1..Len(pairs) |->
                                     Rec(j.next + k - 1, pairs[k][1], pairs[k][2])],
              !.next = j.next + Len(pairs)]

FilesOn(d) == {f \in Frns : fs[d][f] # NoPath}
FreePaths(d) == PathsOn(d) \ {fs[d][f] : f \in FilesOn(d)}

Idle == rf.pc = "idle"

EnvGuard ==
    /\ Idle
    /\ events < MaxEvents
    /\ events' = events + 1
    /\ UNCHANGED <<now, items, usn_state, rf, passes, faults>>
    /\ UNCHANGED nonUsnVars

\* A file is created on d.
EnvCreate(d, p) ==
    /\ EnvGuard
    /\ journal[d].active
    /\ nextFrn[d] <= MaxFrn
    /\ p \in FreePaths(d)
    /\ fs' = [fs EXCEPT ![d][nextFrn[d]] = p]
    /\ nextFrn' = [nextFrn EXCEPT ![d] = @ + 1]
    /\ journal' = [journal EXCEPT ![d] = Append2(@, <<<<nextFrn[d], {FILE_CREATE}>>>>)]
    /\ UNCHANGED settings

\* A file is renamed or moved inside its volume: its FRN stays.
EnvRename(d, f, p) ==
    /\ EnvGuard
    /\ journal[d].active
    /\ f \in FilesOn(d)
    /\ p \in FreePaths(d)
    /\ fs' = [fs EXCEPT ![d][f] = p]
    /\ journal' = [journal EXCEPT ![d] =
                      Append2(@, <<<<f, {RENAME_OLD_NAME}>>, <<f, {RENAME_NEW_NAME}>>>>)]
    /\ UNCHANGED <<nextFrn, settings>>

\* A file is deleted (or leaves the volume).
EnvDelete(d, f) ==
    /\ EnvGuard
    /\ journal[d].active
    /\ f \in FilesOn(d)
    /\ fs' = [fs EXCEPT ![d][f] = NoPath]
    /\ journal' = [journal EXCEPT ![d] = Append2(@, <<<<f, {FILE_DELETE, CLOSE}>>>>)]
    /\ UNCHANGED <<nextFrn, settings>>

\* Some other file of the volume is written and closed: a record the reader
\* asks for (CLOSE is in its reason mask) and then drops.
EnvWrite(d) ==
    /\ EnvGuard
    /\ journal[d].active
    /\ journal' = [journal EXCEPT ![d] = Append2(@, <<<<OtherFrn, {CLOSE}>>>>)]
    /\ UNCHANGED <<fs, nextFrn, settings>>

\* The journal is deleted (fsutil usn deletejournal).
EnvDeleteJournal(d) ==
    /\ EnvGuard
    /\ journal[d].active
    /\ journal' = [journal EXCEPT ![d].active = FALSE, ![d].recs = <<>>]
    /\ UNCHANGED <<fs, nextFrn, settings>>

\* The journal is created again (enable_usn_journal): a new journal id.
EnvCreateJournal(d) ==
    /\ EnvGuard
    /\ ~journal[d].active
    /\ journal' = [journal EXCEPT ![d] =
                      [id |-> @.id + 1, first |-> 0, next |-> 0, recs |-> <<>>,
                       active |-> TRUE]]
    /\ UNCHANGED <<fs, nextFrn, settings>>

\* The oldest records are purged: first_usn moves up to next_usn.
EnvTruncate(d) ==
    /\ EnvGuard
    /\ journal[d].active
    /\ journal[d].first < journal[d].next
    /\ journal' = [journal EXCEPT ![d].first = journal[d].next, ![d].recs = <<>>]
    /\ UNCHANGED <<fs, nextFrn, settings>>

\* SettingsService::set
\* The keys followed here: two the refresh engine reads, the cache cap, and a
\* key SettingsDefaults does not know.
UsnSettingKeys == {"usn_refresh_on_missing", "usn_cross_volume_match"}
SettingKeys == UsnSettingKeys \cup {"thumbnail_cache_max_mb", "window_layout"}

SetSetting(key, value) ==
    /\ EnvGuard
    /\ settings[key] # value
    /\ settings' = [settings EXCEPT ![key] = value]
    /\ UNCHANGED <<fs, nextFrn, journal>>

SettingsDefaultsGet(key) ==
    CASE key = "usn_auto_refresh" -> "false"
      [] key = "usn_refresh_on_missing" -> "true"
      [] key = "usn_cross_volume_match" -> "true"
      [] key = "thumbnail_size" -> "256"
      [] key = "thumbnail_force_shell_cache" -> "false"
      [] key = "thumbnail_cache_max_mb" -> "500"
      [] OTHER -> NoValue

\* SettingsService::get
SettingsGet(key) ==
    IF settings[key] # NoValue THEN settings[key] ELSE SettingsDefaultsGet(key)

\* UsnRefreshService::get_setting_bool
GetSettingBool(key, default) ==
    IF SettingsGet(key) # NoValue THEN SettingsGet(key) = "true" ELSE default


(***************************************************************************)
(* The journal reader (infrastructure/usn_journal/reader.rs).              *)
(***************************************************************************)
\* Records one 64 KB output buffer holds, scaled down (reader.rs:87).
BatchCap == 2

Retained == {FILE_CREATE, RENAME_NEW_NAME, FILE_DELETE}

Min(a, b) == IF a < b THEN a ELSE b

\* read_journal_batch: the next USN and the retained records of one buffer
\* filled from start_usn on.
ReadJournalBatch(j, start_usn) ==
    LET avail == SelectSeq(j.recs, LAMBDA r : r.usn >= start_usn)
        n     == Min(Len(avail), BatchCap)
        raw   == SubSeq(avail, 1, n)
    IN  [next_usn |-> IF n = 0 THEN j.next ELSE raw[n].usn + 1,
         records  |-> SelectSeq(raw, LAMBDA r : HasReason(r, Retained))]

\* read_journal_records: batches until one is empty or does not advance.
RECURSIVE ReadLoop(_, _, _)
ReadLoop(j, current_usn, all_records) ==
    LET b == ReadJournalBatch(j, current_usn)
    IN  IF b.records = <<>> \/ b.next_usn = current_usn
        THEN [final_usn |-> b.next_usn, records |-> all_records]
        ELSE ReadLoop(j, b.next_usn, all_records \o b.records)

ReadJournalRecords(j, start_usn) == ReadLoop(j, start_usn, <<>>)

\* resolve_path_by_frn: the file's current path, NoPath when OpenFileById fails
ResolvePathByFrn(d, frn) == IF frn \in Frns THEN fs[d][frn] ELSE NoPath

\* is_ntfs: the volume-information call fails for a letter with no volume
IsNtfs(drive) == ToAsciiUpper(drive) \in Drives

(***************************************************************************)
(* The database operations the refresh uses.                               *)
(***************************************************************************)
HasPrefix(s, pre) == Len(s) >= Len(pre) /\ SubSeq(s, 1, Len(pre)) = pre

\* ItemRepository::find_active_by_path_prefix: ids of the rows that are not
\* deleted and whose path starts with the prefix
FindActiveByPathPrefix(tbl, prefix) ==
    {i \in DOMAIN tbl : ~tbl[i].is_deleted /\ HasPrefix(tbl[i].path, prefix)}

\* SqliteItemRepository::find_by_id: WHERE id = ?1 AND is_deleted = 0
FindById(tbl, id) == id \in DOMAIN tbl /\ ~tbl[id].is_deleted

\* update on a table whose path column is not UNIQUE;
\* C34_OneItemPerCandidate must tell it from the table of the source.
SqliteItemUpdate_NoUnique(tbl, item, t) ==
    IF item.id \notin DOMAIN tbl
    THEN [ok |-> FALSE, err |-> "ItemNotFound", tbl |-> tbl]
    ELSE [ok |-> TRUE, err |-> "none",
          tbl |-> [tbl EXCEPT ![item.id].path = item.path, ![item.id].updated_at = t]]

\* SqliteItemRepository::update of the entity `item` ([id, path, frn]): the
\* existence check (QueryReturnedNoRows, which map_db_error turns into
\* ItemNotFound), then UPDATE items SET path, size, modified_time,
\* updated_at; items.path is UNIQUE.  The statement names no other column.
SqliteItemUpdate(tbl, item, t) ==
    IF item.id \notin DOMAIN tbl
    THEN [ok |-> FALSE, err |-> "ItemNotFound", tbl |-> tbl]
    ELSE IF \E o \in DOMAIN tbl : o # item.id /\ tbl[o].path = item.path
    THEN [ok |-> FALSE, err |-> "ValidationError", tbl |-> tbl]
    ELSE [ok |-> TRUE, err |-> "none",
          tbl |-> [tbl EXCEPT ![item.id].path = item.path, ![item.id].updated_at = t]]

\* UsnRefreshService::update_item_path
UpdateItemPath(tbl, item_id, new_path, t) ==
    IF ~FindById(tbl, item_id) THEN [ok |-> FALSE, tbl |-> tbl]
    ELSE LET path == FilePathNew(new_path)
         IN  IF ~path.ok THEN [ok |-> FALSE, tbl |-> tbl]
             ELSE SqliteItemUpdate(tbl, [id |-> item_id, path |-> path.value,
                                         frn |-> tbl[item_id].frn], t)

\* UsnRefreshService::update_item_path_and_frn: the entity gets the new path
\* and the new FRN, and is handed to update
UpdateItemPathAndFrn(tbl, item_id, new_path, new_frn, t) ==
    IF ~FindById(tbl, item_id) THEN [ok |-> FALSE, tbl |-> tbl]
    ELSE LET path == FilePathNew(new_path)
         IN  IF ~path.ok THEN [ok |-> FALSE, tbl |-> tbl]
             ELSE SqliteItemUpdate(tbl, [id |-> item_id, path |-> path.value,
                                         frn |-> new_frn], t)

\* mark_item_deleted without the two time stamps; C7_SoftDeleted must tell
\* it from the statement of the source.
MarkItemDeleted_NoStamp(tbl, item_id, t) ==
    IF item_id \in DOMAIN tbl
    THEN [tbl EXCEPT ![item_id].is_deleted = TRUE]
    ELSE tbl

\* UsnRefreshService::mark_item_deleted
MarkItemDeleted(tbl, item_id, t) ==
    IF item_id \in DOMAIN tbl
    THEN [tbl EXCEPT ![item_id].is_deleted = TRUE, ![item_id].deleted_at = t,
                     ![item_id].updated_at = t]
    ELSE tbl

\* Stale detection by the journal id alone; C4_StaleJournal must tell it
\* from the condition of the source.
IsStale_IdOnly(saved, j) == saved.journal_id # j.id

\* Stale detection (usn_refresh_service.rs:177)
IsStale(saved, j) == saved.journal_id # j.id \/ saved.last_usn < j.first

\* load_usn_state / save_usn_state: one row per upper-cased drive letter
LoadUsnState(st, drive) == st[ToAsciiUpper(drive)]

\* save_usn_state storing the USN under a constant journal id;
\* C3_FirstTimeDrive must tell it from the statement of the source.
SaveUsnState_NoJournalId(st, drive, last_usn, journal_id, t) ==
    [st EXCEPT ![ToAsciiUpper(drive)] =
        [last_usn |-> last_usn, journal_id |-> 0, last_synced_at |-> t]]

SaveUsnState(st, drive, last_usn, journal_id, t) ==
    [st EXCEPT ![ToAsciiUpper(drive)] =
        [last_usn |-> last_usn, journal_id |-> journal_id, last_synced_at |-> t]]


(***************************************************************************)
(* UsnRefreshService::refresh (application/services/usn_refresh_service.rs)*)
(* as a process: one step per drive, per matched FRN, per pending item and *)
(* per checkpoint write, each step ending at an await.                     *)
(***************************************************************************)
RequestLetters == Drives \cup {"E"}     \* "E" names no NTFS volume

Requests == UNION {[1..n -> RequestLetters] : n \in 1..MaxDrives}

EmptyResult ==
    [drives_scanned |-> <<>>, items_updated |-> <<>>, journal_stale |-> <<>>,
     journal_inactive |-> <<>>, first_time_drives |-> <<>>, errors |-> <<>>]

NoCur == [drive |-> "", records |-> <<>>, final_usn |-> 0, journal_id |-> 0,
          frn_map |-> <<>>, matched |-> {}]

RfIdle ==
    [pc |-> "idle", drives |-> <<>>, idx |-> 0,
     refresh_on_missing |-> TRUE, cross_volume |-> TRUE,
     result |-> EmptyResult, drive_contexts |-> <<>>, pending |-> <<>>,
     cur |-> NoCur, name_index |-> {}, resolved |-> {}, k |-> 0,
     ret |-> "none",
     \* history of the call, read by the properties only
     items0 |-> <<>>, usn0 |-> <<>>, pushed |-> <<>>, read |-> <<>>,
     aborted_in |-> ""]

DriveContext(drive, records, final_usn, journal_id) ==
    [drive |-> drive, records |-> records, final_usn |-> final_usn,
     journal_id |-> journal_id]

RefreshedItem(item_id, old_path, new_path, action) ==
    [item_id |-> item_id, old_path |-> old_path, new_path |-> new_path,
     action |-> action]

DriveLabel(drive) == drive \o ":"

\* A transient failure (pool acquisition, interact, a Win32 call) may be
\* injected while the budget lasts.
MayFail(fault) == fault => faults < MaxFaults
CountFault(fault) == faults' = IF fault THEN faults + 1 ELSE faults

\* refresh, lines 72-78: the settings are read and the locals set up.
RefreshCall(drives) ==
    /\ Idle
    /\ rf' = [RfIdle EXCEPT
                !.pc = "drive", !.drives = drives, !.idx = 1,
                !.refresh_on_missing = GetSettingBool("usn_refresh_on_missing", TRUE),
                !.cross_volume = GetSettingBool("usn_cross_volume_match", TRUE),
                !.items0 = items, !.usn0 = usn_state]
    /\ UNCHANGED <<fs, nextFrn, journal, events, items, usn_state, settings, faults>>
    /\ UNCHANGED nonUsnVars

\* A refresh call begins; the calls are counted and the clock moves on.
RefreshBegin(drives) ==
    /\ RefreshCall(drives)
    /\ passes < MaxPasses
    /\ passes' = passes + 1
    /\ now' = now + 1

\* A refresh call begins in the second the call before it began in; the
\* calls are not counted, there may be any number of them.
RefreshAgain(drives) ==
    /\ RefreshCall(drives)
    /\ UNCHANGED <<passes, now>>

\* The for loop of lines 80-97 moves to the next drive, or phase 1 ends.
NextDrive(r) ==
    IF r.idx < Len(r.drives)
    THEN [r EXCEPT !.idx = @ + 1, !.cur = NoCur, !.pc = "drive"]
    ELSE [r EXCEPT !.idx = @ + 1, !.cur = NoCur, !.pc = "phase2"]

\* process_drive returned Err(e): lines 92-95
DriveFailed(r) ==
    NextDrive([r EXCEPT !.result.errors = Append(@, r.drives[r.idx])])

PushContext(r, ctx) == [r EXCEPT !.drive_contexts = Append(@, ctx)]

Scanned(r) == [r EXCEPT !.result.drives_scanned = Append(@, DriveLabel(r.drives[r.idx]))]

\* process_drive up to the loop over the matched FRNs (lines 142-253).
\* openFails: VolumeHandle::open, query_journal, load_usn_state,
\* read_journal_records or find_active_by_path_prefix returns Err;
\* saveFails: the save_usn_state of a first-time or stale drive does.
\* frn_map is one of the maps `collect` can build when two tracked items
\* carry the same FRN.
ProcessDrive(openFails, saveFails) ==
    LET drive == rf.drives[rf.idx]
        D     == ToAsciiUpper(drive)
    IN
    /\ rf.pc = "drive"
    /\ MayFail(openFails \/ saveFails)
    /\ ~(openFails /\ saveFails)
    /\ UNCHANGED <<fs, nextFrn, journal, now, events, items, settings, passes>>
    /\ UNCHANGED nonUsnVars
    /\ IF ~IsNtfs(drive)
       THEN /\ ~openFails /\ ~saveFails
            /\ rf' = NextDrive(rf)
            /\ UNCHANGED <<usn_state, faults>>
       ELSE
       LET j       == journal[D]
           saved   == LoadUsnState(usn_state, drive)
           fresh   == DriveContext(drive, <<>>, j.next, j.id)
           got     == ReadJournalRecords(j, saved.last_usn)
           prefix  == D \o ":" \o Sep
           tracked == FindActiveByPathPrefix(items, prefix)
           withFrn == {i \in tracked : items[i].frn # 0}
           keys    == {items[i].frn : i \in withFrn}
           usn_frns == {got.records[n].frn : n \in
                          {m \in 1..Len(got.records) :
                              HasReason(got.records[m], {RENAME_NEW_NAME, FILE_DELETE})}}
           matched == usn_frns \cap keys
           read    == DriveContext(drive, got.records, got.final_usn, j.id)
       IN
       IF openFails
       THEN /\ ~saveFails
            /\ rf' = DriveFailed(Scanned(rf))
            /\ CountFault(TRUE)
            /\ UNCHANGED usn_state
       ELSE IF ~j.active
       THEN /\ ~saveFails
            /\ rf' = NextDrive([Scanned(rf) EXCEPT
                                   !.result.journal_inactive = Append(@, DriveLabel(drive))])
            /\ UNCHANGED <<usn_state, faults>>
       ELSE IF saved = NoRow
       THEN /\ CountFault(saveFails)
            /\ LET r == [Scanned(rf) EXCEPT
                            !.result.first_time_drives = Append(@, DriveLabel(drive))]
               IN  IF saveFails
                   THEN rf' = DriveFailed(r) /\ UNCHANGED usn_state
                   ELSE /\ usn_state' = SaveUsnState(usn_state, drive, j.next, j.id, now)
                        /\ rf' = NextDrive(PushContext(r, fresh))
       ELSE IF IsStale(saved, j)
       THEN /\ CountFault(saveFails)
            /\ LET r == [Scanned(rf) EXCEPT
                            !.result.journal_stale = Append(@, DriveLabel(drive))]
               IN  IF saveFails
                   THEN rf' = DriveFailed(r) /\ UNCHANGED usn_state
                   ELSE /\ usn_state' = SaveUsnState(usn_state, drive, j.next, j.id, now)
                        /\ rf' = NextDrive(PushContext(r, fresh))
       ELSE
       /\ ~saveFails
       /\ UNCHANGED <<usn_state, faults>>
       /\ IF saved.last_usn >= j.next
          THEN rf' = NextDrive(PushContext(Scanned(rf), fresh))
          ELSE IF got.records = <<>> \/ tracked = {} \/ matched = {}
          THEN rf' = NextDrive(PushContext(
                            [Scanned(rf) EXCEPT !.read = Append(@, drive)], read))
          ELSE \E frn_map \in [keys -> withFrn] :
               /\ \A f \in keys : items[frn_map[f]].frn = f
               /\ rf' = [Scanned(rf) EXCEPT
                           !.pc = "match",
                           !.read = Append(@, drive),
                           !.cur = [drive |-> drive, records |-> got.records,
                                    final_usn |-> got.final_usn, journal_id |-> j.id,
                                    frn_map |-> [f \in keys |->
                                                   [id |-> frn_map[f],
                                                    path |-> items[frn_map[f]].path]],
                                    matched |-> matched]]

\* One iteration of the loop over matched_frns (lines 256-285), in the
\* order the HashSet yields them; after the last the context is pushed
\* (lines 288-296).  dbFails: update_item_path fails in the pool.
ProcessMatch(frn, dbFails) ==
    LET c         == rf.cur
        D         == ToAsciiUpper(c.drive)
        item      == c.frn_map[frn]
        has_delete == \E n \in 1..Len(c.records) :
                         /\ c.records[n].frn = frn
                         /\ HasReason(c.records[n], {FILE_DELETE})
        current_path == ResolvePathByFrn(D, frn)
        upd       == UpdateItemPath(items, item.id, current_path, now)
        left      == c.matched \ {frn}
        Finish(r) == IF left = {}
                     THEN NextDrive(PushContext(r,
                              DriveContext(c.drive, c.records, c.final_usn, c.journal_id)))
                     ELSE [r EXCEPT !.cur.matched = left]
    IN
    /\ rf.pc = "match"
    /\ frn \in c.matched
    /\ MayFail(dbFails)
    /\ UNCHANGED <<fs, nextFrn, journal, now, events, usn_state, settings, passes>>
    /\ UNCHANGED nonUsnVars
    /\ IF current_path # NoPath
       THEN IF current_path # item.path
            THEN /\ CountFault(dbFails)
                 /\ IF dbFails \/ ~upd.ok
                    THEN rf' = DriveFailed(rf) /\ UNCHANGED items
                    ELSE /\ items' = upd.tbl
                         /\ rf' = Finish([rf EXCEPT !.result.items_updated =
                                            Append(@, RefreshedItem(item.id, item.path,
                                                                    current_path, "renamed"))])
            ELSE /\ ~dbFails
                 /\ rf' = Finish(rf)
                 /\ UNCHANGED <<items, faults>>
       ELSE /\ ~dbFails
            /\ UNCHANGED <<items, faults>>
            /\ IF has_delete \/ ~rf.refresh_on_missing
               THEN rf' = Finish([rf EXCEPT
                                     !.pending = Append(@, [item_id |-> item.id,
                                                            old_path |-> item.path]),
                                     !.pushed = Append(@, item.id)])
               ELSE rf' = Finish(rf)


\* Lines 99-103: phase 2 runs when the setting is on, something is pending
\* and more than one context was pushed.  cross_volume_match first builds
\* name_index (lines 312-364): for every context, the files its create and
\* rename records name that still resolve and whose filename is pending.
PendingFilenames(r) == {FileName(r.pending[n].old_path) : n \in 1..Len(r.pending)}

NameIndex(r) ==
    {[filename |-> FileName(ResolvePathByFrn(ToAsciiUpper(r.drive_contexts[i].drive), f)),
      path     |-> ResolvePathByFrn(ToAsciiUpper(r.drive_contexts[i].drive), f),
      frn      |-> f,
      idx      |-> i] :
        <<i, f>> \in {<<i, f>> \in (1..Len(r.drive_contexts)) \X Frns :
            /\ \E n \in 1..Len(r.drive_contexts[i].records) :
                  /\ r.drive_contexts[i].records[n].frn = f
                  /\ HasReason(r.drive_contexts[i].records[n],
                               {FILE_CREATE, RENAME_NEW_NAME})
            /\ ResolvePathByFrn(ToAsciiUpper(r.drive_contexts[i].drive), f) # NoPath
            /\ FileName(ResolvePathByFrn(ToAsciiUpper(r.drive_contexts[i].drive), f))
                  \in PendingFilenames(r)}}

Phase2 ==
    /\ rf.pc = "phase2"
    /\ rf' = IF rf.cross_volume /\ rf.pending # <<>> /\ Len(rf.drive_contexts) > 1
             THEN [rf EXCEPT !.pc = "cross", !.k = 1, !.name_index = NameIndex(rf),
                             !.resolved = {}]
             ELSE [rf EXCEPT !.pc = "phase3", !.k = 1]
    /\ UNCHANGED <<fs, nextFrn, journal, now, events, items, usn_state, settings,
                   passes, faults>>
    /\ UNCHANGED nonUsnVars

\* cross_volume_match leaving the resolved entries on the list;
\* C8_OneOutcome must tell it from the removal of the source.
RemoveResolved_Keep(pending, resolved) == pending

\* Vec::remove of the resolved indices (lines 408-411)
RemoveResolved(pending, resolved) ==
    LET keep == {n \in 1..Len(pending) : n \notin resolved}
        F[n \in 0..Len(pending)] ==
            IF n = 0 THEN <<>>
            ELSE IF n \in keep THEN Append(F[n - 1], pending[n]) ELSE F[n - 1]
    IN  F[Len(pending)]

\* refresh returns Err(e) through `?`: no result reaches the caller.
Abort(r) == [r EXCEPT !.pc = "done", !.ret = "err", !.aborted_in = r.pc]

\* One iteration of the loop over the pending deletes (lines 369-405); the
\* candidates of a filename are ordered by context, and inside a context as
\* the HashSet of FRNs yields them.  After the last iteration the resolved
\* entries leave the list.  dbFails: update_item_path_and_frn fails in the pool.
CrossStep(dbFails) ==
    LET pending == rf.pending[rf.k]
        filename == FileName(pending.old_path)
        source_drive == SourceDrive(pending.old_path)
        usable == {c \in rf.name_index :
                      /\ c.filename = filename
                      /\ ToAsciiUpper(rf.drive_contexts[c.idx].drive) # source_drive}
        Finish(r) == IF rf.k < Len(rf.pending)
                     THEN [r EXCEPT !.k = @ + 1]
                     ELSE [r EXCEPT !.pc = "phase3", !.k = 1,
                                    !.pending = RemoveResolved(r.pending, r.resolved)]
    IN
    /\ rf.pc = "cross"
    /\ MayFail(dbFails)
    /\ UNCHANGED <<fs, nextFrn, journal, now, events, usn_state, settings, passes>>
    /\ UNCHANGED nonUsnVars
    /\ IF usable = {}
       THEN /\ ~dbFails
            /\ rf' = Finish(rf)
            /\ UNCHANGED <<items, faults>>
       ELSE \E c \in usable :
            /\ \A o \in usable : c.idx <= o.idx
            /\ CountFault(dbFails)
            /\ LET upd == UpdateItemPathAndFrn(items, pending.item_id, c.path, c.frn, now)
               IN  IF dbFails \/ ~upd.ok
                   THEN rf' = Abort(rf) /\ UNCHANGED items
                   ELSE /\ items' = upd.tbl
                        /\ rf' = Finish([rf EXCEPT
                                    !.result.items_updated =
                                        Append(@, RefreshedItem(pending.item_id,
                                                   pending.old_path, c.path, "moved")),
                                    !.resolved = @ \cup {rf.k}])

\* One iteration of the loop of phase 3 (lines 106-114).
\* dbFails: mark_item_deleted fails in the pool.
Phase3Step(dbFails) ==
    /\ rf.pc = "phase3"
    /\ MayFail(dbFails)
    /\ UNCHANGED <<fs, nextFrn, journal, now, events, usn_state, settings, passes>>
    /\ UNCHANGED nonUsnVars
    /\ IF rf.k > Len(rf.pending)
       THEN /\ ~dbFails
            /\ rf' = [rf EXCEPT !.pc = "save", !.k = 1]
            /\ UNCHANGED <<items, faults>>
       ELSE LET pending == rf.pending[rf.k]
            IN  /\ CountFault(dbFails)
                /\ IF dbFails
                   THEN rf' = Abort(rf) /\ UNCHANGED items
                   ELSE /\ items' = MarkItemDeleted(items, pending.item_id, now)
                        /\ rf' = [rf EXCEPT
                                    !.k = @ + 1,
                                    !.result.items_updated =
                                        Append(@, RefreshedItem(pending.item_id,
                                                   pending.old_path, NoPath, "deleted"))]

\* One iteration of the loop of lines 117-119, then Ok(result).
\* dbFails: save_usn_state fails in the pool.
SaveStep(dbFails) ==
    /\ rf.pc = "save"
    /\ MayFail(dbFails)
    /\ UNCHANGED <<fs, nextFrn, journal, now, events, items, settings, passes>>
    /\ UNCHANGED nonUsnVars
    /\ IF rf.k > Len(rf.drive_contexts)
       THEN /\ ~dbFails
            /\ rf' = [rf EXCEPT !.pc = "done", !.ret = "ok"]
            /\ UNCHANGED <<usn_state, faults>>
       ELSE LET ctx == rf.drive_contexts[rf.k]
            IN  /\ CountFault(dbFails)
                /\ IF dbFails
                   THEN rf' = Abort(rf) /\ UNCHANGED usn_state
                   ELSE /\ usn_state' = SaveUsnState(usn_state, ctx.drive, ctx.final_usn,
                                                     ctx.journal_id, now)
                        /\ rf' = [rf EXCEPT !.k = @ + 1]

\* The caller has the answer; the locals of the call are dropped.
RefreshReturn ==
    /\ rf.pc = "done"
    /\ rf' = RfIdle
    /\ UNCHANGED <<fs, nextFrn, journal, now, events, items, usn_state, settings,
                   passes, faults>>
    /\ UNCHANGED nonUsnVars

(***************************************************************************)
(* TagService::merge starts idle; its steps are defined further down.      *)
(***************************************************************************)
MgIdle == [pc |-> "idle", source |-> 0, target |-> 0, ret |-> "none",
           \* history of the call, read by the properties only
           expect |-> {}, dup |-> {}, moved |-> {}, existed |-> FALSE,
           interfered |-> FALSE]

(***************************************************************************)
(* The refresh engine's specification.                                     *)
(***************************************************************************)
\* Items 1 and 2 are files of volume C, tracked by their FRN; item 3 lies on
\* a volume that is not NTFS and has no FRN.
InitItems ==
    [i \in ItemIds |->
        [path |-> CASE i = 1 -> "C:\\old\\a.txt"
                    [] i = 2 -> "C:\\new\\a.txt"
                    [] OTHER -> "E:\\c.txt",
         frn |-> IF i \in {1, 2} THEN i ELSE 0,
         is_deleted |-> FALSE, deleted_at |-> 0, updated_at |-> 0]]

UsnWorldInit ==
    /\ fs = [d \in Drives |-> [f \in Frns |->
                IF d = "C" /\ f \in {1, 2} THEN InitItems[f].path ELSE NoPath]]
    /\ nextFrn = [d \in Drives |-> 3]
    /\ journal = [d \in Drives |->
                    [id |-> 1, first |-> 0, next |-> 0, recs |-> <<>>, active |-> TRUE]]
    /\ now = 1
    /\ events = 0
    /\ items = InitItems
    /\ settings = [k \in SettingKeys |-> NoValue]
    /\ rf = RfIdle
    /\ passes = 0

UsnInit ==
    /\ UsnWorldInit
    /\ usn_state = [d \in Drives |-> NoRow]
    /\ faults = 0

MergeIdleInit ==
    /\ tags = {}
    /\ item_tags = {}
    /\ tagSeq = 0
    /\ mg = MgIdle

(***************************************************************************)
(* The other subsystems start as their constructors leave them: the schema *)
(* is created with no row, ThumbnailService::new has spawned the worker    *)
(* thread and created the semaphore, the cache directory holds no file.    *)
(***************************************************************************)
EmptyTable == [i \in {} |-> 0]

DbEmpty ==
    [tag_groups |-> EmptyTable, tags |-> EmptyTable, items |-> EmptyTable,
     item_tags |-> EmptyTable,
     sqlite_sequence |-> [tag_groups |-> 0, tags |-> 0, items |-> 0]]

NoCall == [op |-> "none", id |-> 0, ret |-> "none"]

DbInit ==
    /\ db = DbEmpty
    /\ call = NoCall

MaxCallers == 5     \* tasks that call get_thumbnail
Permits == 4        \* Semaphore::new(4)
ChannelDepth == 64  \* mpsc::channel(64)
Callers == 1..MaxCallers

\* a task outside get_thumbnail
ThIdle == [pc |-> "idle", file |-> "none", reply |-> "none", after |-> FALSE]

\* the worker thread as std::thread::Builder::spawn leaves it: about to call
\* CoInitializeEx
WorkerSpawned == [pc |-> "init", cur |-> {}, failed |-> FALSE]

ThumbInit ==
    /\ semaphore = Permits
    /\ thumb = [r \in Callers |-> ThIdle]
    /\ chan = <<>>
    /\ worker = WorkerSpawned

\* no evict_to_limit call in progress
EvIdle == [pc |-> "idle", entries |-> <<>>, k |-> 0, freed |-> 0, target |-> 0,
           deleted |-> <<>>, failed |-> FALSE, interfered |-> FALSE]

MaxFiles     == 3   \* cache keys in use
MaxFileSize  == 2   \* bytes of a cached thumbnail
MaxTime      == 3   \* values of a file's modification time
MaxSizeBytes == 3   \* max_size_bytes, scaled down from 500 MB

CacheKeys == 1..MaxFiles

\* a cache key that was never written or read
NoUse == [at |-> 0, read |-> FALSE]

CacheInit ==
    /\ cache = EmptyTable
    /\ ev = EvIdle
    /\ clock = 1
    /\ used = [f \in CacheKeys |-> NoUse]

SettingsInit == setlog = <<>>

\* no search was made yet: both history tables are empty
HistoryInit ==
    /\ hist = [rows |-> EmptyTable, tags |-> {}, seq |-> 0, now |-> 1]
    /\ hlog = <<>>

\* no CQL search in progress
CqlIdle == [stage |-> "idle", query |-> <<>>, expr |-> <<>>, fragment |-> <<>>]

CqlInit == cql = CqlIdle

\* tasks that call TagGroupService::create beside each other
MaxCreators == 2

Creators == 1..MaxCreators

GcIdle == [pc |-> "idle", max_order |-> 0, id |-> 0]

TpIdle == [pc |-> "idle", item_id |-> 0, template |-> <<>>, all_tags |-> <<>>,
           ret |-> "none"]

\* no service call in progress
SvcInit == gc = [c \in Creators |-> GcIdle] /\ tp = TpIdle /\ other = RfIdle

Init ==
    /\ UsnInit /\ MergeIdleInit /\ DbInit /\ ThumbInit /\ CacheInit /\ SettingsInit
    /\ HistoryInit /\ CqlInit /\ SvcInit

Next ==
    \/ \E d \in Drives : \E p \in PathsOn(d) : EnvCreate(d, p)
    \/ \E d \in Drives : \E f \in Frns : \E p \in PathsOn(d) : EnvRename(d, f, p)
    \/ \E d \in Drives : \E f \in Frns : EnvDelete(d, f)
    \/ \E d \in Drives : EnvWrite(d)
    \/ \E d \in Drives : EnvDeleteJournal(d)
    \/ \E d \in Drives : EnvCreateJournal(d)
    \/ \E d \in Drives : EnvTruncate(d)
    \/ \E key \in UsnSettingKeys : SetSetting(key, "false")
    \/ \E drives \in Requests : RefreshBegin(drives)
    \/ \E openFails, saveFails \in BOOLEAN : ProcessDrive(openFails, saveFails)
    \/ \E frn \in Frns : \E dbFails \in BOOLEAN : ProcessMatch(frn, dbFails)
    \/ Phase2
    \/ \E dbFails \in BOOLEAN : CrossStep(dbFails)
    \/ \E dbFails \in BOOLEAN : Phase3Step(dbFails)
    \/ \E dbFails \in BOOLEAN : SaveStep(dbFails)
    \/ RefreshReturn

Spec == Init /\ [][Next]_vars

(***************************************************************************)
(* Properties of the refresh engine, checked under Spec.                   *)
(***************************************************************************)
Done      == rf.pc = "done"
Completed == rf.pc = "done" /\ rf.ret = "ok"

UpdatedEntries == {rf.result.items_updated[n] : n \in 1..Len(rf.result.items_updated)}

Listed(label, list) == \E n \in 1..Len(list) : list[n] = label

HasCheckpoint(ctx) ==
    LET row == LoadUsnState(usn_state, ctx.drive)
    IN  /\ row # NoRow
        /\ row.last_usn = ctx.final_usn
        /\ row.journal_id = ctx.journal_id

\* C1: at the end of every refresh pass, each drive whose context was pushed
\* in phase 1 has a usn_state row holding the final USN of that context and
\* the journal id of that context.  (A pass that ends because the checkpoint
\* write itself failed is left aside: no code could have written the row.)
C1_CheckpointAtEnd ==
    rf.pc = "done" /\ rf.aborted_in # "save" =>
        \A n \in 1..Len(rf.drive_contexts) : HasCheckpoint(rf.drive_contexts[n])

\* C2: a failure while one drive is refreshed (reading its journal, applying
\* its item updates, matching its pending items across volumes, soft-deleting
\* them) does not abort the pass: refresh returns a result.  A pass may end
\* without a result only when a checkpoint write failed.
C2_FailureDoesNotAbort ==
    rf.pc = "done" /\ rf.ret = "err" => rf.aborted_in = "save"

\* The step of process_drive on the drive at hand, taken without a failure
ProcessDriveStep ==
    /\ rf.pc = "drive"
    /\ rf' # rf
    /\ faults' = faults

CurDrive == rf.drives[rf.idx]
CurJournal == journal[ToAsciiUpper(CurDrive)]

C3Step ==
    (/\ ProcessDriveStep
     /\ IsNtfs(CurDrive)
     /\ CurJournal.active
     /\ LoadUsnState(usn_state, CurDrive) = NoRow)
    => /\ usn_state' = [usn_state EXCEPT ![ToAsciiUpper(CurDrive)] =
                           [last_usn |-> CurJournal.next, journal_id |-> CurJournal.id,
                            last_synced_at |-> now]]
       /\ rf'.result.first_time_drives =
              Append(rf.result.first_time_drives, DriveLabel(CurDrive))
       /\ rf'.read = rf.read
       /\ rf'.pending = rf.pending
       /\ rf'.result.items_updated = rf.result.items_updated
       /\ items' = items

C3End ==
    Completed =>
        \A d \in Drives :
            (/\ Listed(DriveLabel(d), rf.result.first_time_drives)
             /\ ~Listed(d, rf.result.errors)) =>
                /\ usn_state[d] # NoRow
                /\ usn_state[d].last_usn = journal[d].next
                /\ usn_state[d].journal_id = journal[d].id

\* C3: refreshing an NTFS drive with an active journal and no usn_state row
\* writes the row (journal.next_usn, journal.journal_id), lists the drive in
\* first_time_drives, reads no journal records, changes no item and adds no
\* items_updated entry, provided no call of the step fails; and the row
\* still holds these values when the pass returns its result, unless the
\* result reports a failure for the drive in errors[].
C3_FirstTimeDrive == [][C3Step]_vars /\ []C3End

C3_Witness ==
    /\ Completed
    /\ Listed("C:", rf.result.first_time_drives)
    /\ usn_state["C"] # NoRow
    /\ rf.usn0["C"] = NoRow
    /\ ~Listed("C", rf.result.errors)

C4Step ==
    (/\ ProcessDriveStep
     /\ IsNtfs(CurDrive)
     /\ CurJournal.active
     /\ LoadUsnState(usn_state, CurDrive) # NoRow
     /\ \/ LoadUsnState(usn_state, CurDrive).journal_id # CurJournal.id
        \/ LoadUsnState(usn_state, CurDrive).last_usn < CurJournal.first)
    => /\ usn_state' = [usn_state EXCEPT ![ToAsciiUpper(CurDrive)] =
                           [last_usn |-> CurJournal.next, journal_id |-> CurJournal.id,
                            last_synced_at |-> now]]
       /\ rf'.result.journal_stale =
              Append(rf.result.journal_stale, DriveLabel(CurDrive))
       /\ rf'.read = rf.read
       /\ rf'.pending = rf.pending
       /\ rf'.result.items_updated = rf.result.items_updated
       /\ items' = items

\* C4: when the saved journal_id differs from the journal's, or the saved
\* last_usn is below the journal's first_usn, the drive's step reads no
\* records, changes no item, lists the drive in journal_stale and rewrites
\* the row to (journal.next_usn, journal.journal_id), provided no call of
\* the step fails.
C4_StaleJournal == [][C4Step]_vars

\* a pass that met a journal whose oldest records were purged past the
\* checkpoint, the journal id unchanged
C4_Witness ==
    /\ Completed
    /\ Listed("C:", rf.result.journal_stale)
    /\ rf.usn0["C"] # NoRow
    /\ rf.usn0["C"].journal_id = journal["C"].id
    /\ rf.usn0["C"].last_usn < journal["C"].first
    /\ usn_state["C"].last_usn = journal["C"].next

Requested(d) == \E n \in 1..Len(rf.drives) : ToAsciiUpper(rf.drives[n]) = d

\* Item i was tracked on volume d when the pass began, its drive has a
\* usable checkpoint, a rename or delete record for its FRN lies at or after
\* the checkpoint, and the FRN resolves to a path other than the stored one.
C5Case(i, d) ==
    /\ Requested(d)
    /\ ~rf.items0[i].is_deleted
    /\ rf.items0[i].frn # 0
    /\ HasPrefix(rf.items0[i].path, d \o ":" \o Sep)
    /\ journal[d].active
    /\ rf.usn0[d] # NoRow
    /\ ~IsStale(rf.usn0[d], journal[d])
    /\ \E n \in 1..Len(journal[d].recs) :
          /\ journal[d].recs[n].usn >= rf.usn0[d].last_usn
          /\ journal[d].recs[n].frn = rf.items0[i].frn
          /\ HasReason(journal[d].recs[n], {RENAME_NEW_NAME, FILE_DELETE})
    /\ ResolvePathByFrn(d, rf.items0[i].frn) # NoPath
    /\ ResolvePathByFrn(d, rf.items0[i].frn) # rf.items0[i].path

\* C5: a tracked item with a non-zero FRN that has a RENAME_NEW_NAME or
\* FILE_DELETE record since the checkpoint and whose FRN resolves to a path
\* different from the stored one has, after a refresh in which no call
\* failed transiently, the resolved path stored and an items_updated entry
\* {renamed, old path, new path}.
C5_RenamedInPlace ==
    Completed /\ faults = 0 =>
        \A i \in ItemIds : \A d \in Drives :
            C5Case(i, d) =>
                /\ items[i].path = ResolvePathByFrn(d, rf.items0[i].frn)
                /\ RefreshedItem(i, rf.items0[i].path,
                                 ResolvePathByFrn(d, rf.items0[i].frn), "renamed")
                      \in UpdatedEntries

\* The FRN of the file at the given path
FrnAt(path) ==
    {f \in Frns : SourceDrive(path) \in Drives /\ fs[SourceDrive(path)][f] = path}

\* C6: an item reported moved by cross-volume matching has, after the
\* refresh, the matched file's path as its stored path and the matched
\* file's FRN as its stored file reference number.
C6_MovedPathAndFrn ==
    Completed =>
        \A e \in UpdatedEntries :
            e.action = "moved" =>
                /\ items[e.item_id].path = e.new_path
                /\ items[e.item_id].frn \in FrnAt(e.new_path)

C35_UpdatedOnce ==
    Completed =>
        \A n, m \in 1..Len(rf.result.items_updated) :
            rf.result.items_updated[n].item_id = rf.result.items_updated[m].item_id
                => n = m

Reported(id, action) == \E e \in UpdatedEntries : e.item_id = id /\ e.action = action

\* C8: in a completed refresh every item that was put on the pending list
\* is reported either as moved or as deleted, never both; an item reported
\* moved is not soft-deleted and is no longer on the pending list.
C8_OneOutcome ==
    Completed =>
        \A n \in 1..Len(rf.pushed) :
            LET id == rf.pushed[n]
            IN  /\ Reported(id, "moved") # Reported(id, "deleted")
                /\ Reported(id, "moved") =>
                      /\ ~items[id].is_deleted
                      /\ \A m \in 1..Len(rf.pending) : rf.pending[m].item_id # id

C8_Witness ==
    /\ Completed
    /\ rf.pushed # <<>>
    /\ Reported(rf.pushed[1], "moved")
    /\ ~items[rf.pushed[1]].is_deleted

\* The records of journal j from start_usn on that carry a retained reason
RetainedSince(j, start_usn) ==
    SelectSeq(j.recs, LAMBDA r : r.usn >= start_usn /\ HasReason(r, Retained))

\* A drive whose journal the next pass would read from its checkpoint
Readable(d) ==
    /\ journal[d].active
    /\ usn_state[d] # NoRow
    /\ ~IsStale(usn_state[d], journal[d])
    /\ usn_state[d].last_usn < journal[d].next

\* C27: when read_journal_records returns, every record with a retained
\* reason (FILE_CREATE, RENAME_NEW_NAME, FILE_DELETE) between start_usn and
\* the journal's end is in the result.
C27_ReadsToEnd ==
    \A d \in Drives :
        Readable(d) =>
            ReadJournalRecords(journal[d], usn_state[d].last_usn).records
                = RetainedSince(journal[d], usn_state[d].last_usn)

\* The state a later session starts in: the session before wrote drive C's
\* checkpoint at USN 0, and since then file 1 was renamed inside the volume
\* and another file was written twice.
ResumedInit ==
    /\ fs = [d \in Drives |-> [f \in Frns |->
                IF d = "C" /\ f = 1 THEN "C:\\old\\b.txt"
                ELSE IF d = "C" /\ f = 2 THEN InitItems[2].path ELSE NoPath]]
    /\ nextFrn = [d \in Drives |-> 3]
    /\ journal = [d \in Drives |->
                    [id |-> 1, first |-> 0,
                     next |-> IF d = "C" THEN 4 ELSE 0,
                     recs |-> IF d = "C"
                              THEN <<Rec(0, 1, {RENAME_OLD_NAME}), Rec(1, 1, {RENAME_NEW_NAME}),
                                     Rec(2, OtherFrn, {CLOSE}), Rec(3, OtherFrn, {CLOSE})>>
                              ELSE <<>>,
                     active |-> TRUE]]
    /\ now = 1
    /\ events = 0
    /\ items = InitItems
    /\ usn_state = [d \in Drives |->
                      IF d = "C"
                      THEN [last_usn |-> 0, journal_id |-> 1, last_synced_at |-> 0]
                      ELSE NoRow]
    /\ settings = [k \in SettingKeys |-> NoValue]
    /\ rf = RfIdle
    /\ passes = 0
    /\ faults = 0
    /\ MergeIdleInit /\ DbInit /\ ThumbInit /\ CacheInit /\ SettingsInit /\ HistoryInit
    /\ CqlInit /\ SvcInit

ResumeSpec == ResumedInit /\ [][Next]_vars

\* Another state a later session starts in: the session before wrote the
\* checkpoints of C and D at USN 0, and since then both tracked files of C,
\* which have the same filename, left the volume.
PendingWorld ==
    /\ fs = [d \in Drives |-> [f \in Frns |-> NoPath]]
    /\ nextFrn = [d \in Drives |-> IF d = "C" THEN 3 ELSE 2]
    /\ journal = [d \in Drives |->
                    [id |-> 1, first |-> 0,
                     next |-> IF d = "C" THEN 2 ELSE 0,
                     recs |-> IF d = "C"
                              THEN <<Rec(0, 1, {FILE_DELETE, CLOSE}),
                                     Rec(1, 2, {FILE_DELETE, CLOSE})>>
                              ELSE <<>>,
                     active |-> TRUE]]
    /\ now = 1
    /\ events = 0
    /\ items = InitItems
    /\ usn_state = [d \in Drives |->
                      [last_usn |-> 0, journal_id |-> 1, last_synced_at |-> 0]]
    /\ settings = [k \in SettingKeys |-> NoValue]
    /\ rf = RfIdle
    /\ passes = 0
    /\ MergeIdleInit /\ DbInit /\ ThumbInit /\ CacheInit /\ SettingsInit /\ HistoryInit
    /\ CqlInit /\ SvcInit

PendingInit == PendingWorld /\ faults = 0

PendingSpec == PendingInit /\ [][Next]_vars

MovedEntries == {e \in UpdatedEntries : e.action = "moved"}

\* C34: within one refresh no candidate path goes to two pending items: two
\* items reported moved never have the same new path, and two items moved by
\* the refresh never end on the same path.
C34_OneItemPerCandidate ==
    \A a, b \in MovedEntries :
        a.item_id # b.item_id =>
            /\ a.new_path # b.new_path
            /\ items[a.item_id].path # items[b.item_id].path

\* two pending items have the same filename and one candidate carries it:
\* the first item was moved to it, the second is still pending, and the
\* refresh has ended in cross-volume matching
C34_Witness ==
    /\ rf.pc = "done"
    /\ rf.aborted_in = "cross"
    /\ Len(rf.pending) = 2
    /\ rf.pending[1].item_id # rf.pending[2].item_id
    /\ FileName(rf.pending[1].old_path) = FileName(rf.pending[2].old_path)
    /\ \E e \in MovedEntries :
          /\ e.item_id = rf.pending[1].item_id
          /\ items[e.item_id].path = e.new_path
          /\ \A c \in rf.name_index : c.path = e.new_path
    /\ items[rf.pending[2].item_id].path = rf.pending[2].old_path
    /\ faults = 0

\* Two refresh calls in flight: the task lib.rs spawns at startup and the
\* command refresh_file_index run on the same runtime and share no lock.
\* The runtime leaves one call at an await and goes on with the other; rf
\* holds the locals of the call that takes the next step.
Switch ==
    /\ rf.pc # "idle" \/ other.pc # "idle"
    /\ rf' = other
    /\ other' = rf
    /\ UNCHANGED <<fs, nextFrn, journal, now, events, items, usn_state, settings,
                   passes, faults>>
    /\ UNCHANGED <<mergeVars, dbVars, thumbVars, cacheVars, setVars, histVars, cqlVars,
                   svcVars>>

\* Meanwhile other files of the volumes are written.
ConcurrentNext ==
    \/ \E d \in Drives : EnvWrite(d)
    \/ \E drives \in Requests : RefreshBegin(drives)
    \/ \E openFails, saveFails \in BOOLEAN : ProcessDrive(openFails, saveFails)
    \/ \E frn \in Frns : \E dbFails \in BOOLEAN : ProcessMatch(frn, dbFails)
    \/ Phase2
    \/ \E dbFails \in BOOLEAN : CrossStep(dbFails)
    \/ \E dbFails \in BOOLEAN : Phase3Step(dbFails)
    \/ \E dbFails \in BOOLEAN : SaveStep(dbFails)
    \/ RefreshReturn
    \/ Switch

\* The same session start; no transient database failure is injected here.
ConcurrentInit == PendingWorld /\ faults = MaxFaults

ConcurrentSpec == ConcurrentInit /\ [][ConcurrentNext]_vars

\* C32: while the journal id stored for a drive stays the same, no write of
\* usn_state lowers the drive's last_usn, two refresh calls running beside
\* each other included.
C32_CheckpointMonotonic ==
    [][\A d \in Drives :
          (/\ usn_state[d] # NoRow
           /\ usn_state'[d] # NoRow
           /\ usn_state'[d].journal_id = usn_state[d].journal_id
           /\ journal'[d].id = usn_state[d].journal_id)
          => usn_state'[d].last_usn >= usn_state[d].last_usn]_vars

\* Refresh after refresh.  The session starts with the checkpoints of C and
\* D at USN 0 and nothing in the journals; tracked files are then renamed
\* inside their volume or deleted, and refresh is called again and again.
\* No transient database failure is injected.
RepeatInit ==
    /\ UsnWorldInit
    /\ usn_state = [d \in Drives |->
                      [last_usn |-> 0, journal_id |-> 1, last_synced_at |-> 0]]
    /\ faults = MaxFaults
    /\ MergeIdleInit /\ DbInit /\ ThumbInit /\ CacheInit /\ SettingsInit /\ HistoryInit
    /\ CqlInit /\ SvcInit

RefreshSteps ==
    \/ \E openFails, saveFails \in BOOLEAN : ProcessDrive(openFails, saveFails)
    \/ \E frn \in Frns : \E dbFails \in BOOLEAN : ProcessMatch(frn, dbFails)
    \/ Phase2
    \/ \E dbFails \in BOOLEAN : CrossStep(dbFails)
    \/ \E dbFails \in BOOLEAN : Phase3Step(dbFails)
    \/ \E dbFails \in BOOLEAN : SaveStep(dbFails)
    \/ RefreshReturn

RepeatNext ==
    \/ \E d \in Drives : \E f \in Frns : \E p \in PathsOn(d) : EnvRename(d, f, p)
    \/ \E d \in Drives : \E f \in Frns : EnvDelete(d, f)
    \/ \E drives \in Requests : RefreshAgain(drives)
    \/ RefreshSteps

\* A call that has begun runs to its end, and each drive is refreshed again
\* and again.
RepeatFairSpec ==
    /\ RepeatInit
    /\ [][RepeatNext]_vars
    /\ WF_vars(RefreshSteps)
    /\ \A d \in Drives : SF_vars(RefreshAgain(<<d>>))

CaughtUp(d) ==
    /\ usn_state[d] # NoRow
    /\ usn_state[d].journal_id = journal[d].id
    /\ usn_state[d].last_usn >= journal[d].next

\* C33: refreshed again and again, a drive whose journal can be read from
\* its checkpoint gets its checkpoint to the journal's end, also when the
\* update of one tracked item fails in every pass.
C33_CheckpointAdvances ==
    \A d \in Drives : Readable(d) ~> CaughtUp(d)

\* the FRN has a FILE_DELETE record at or after the checkpoint the pass began with
DeletedSince(d, frn) ==
    \E n \in 1..Len(journal[d].recs) :
        /\ journal[d].recs[n].usn >= rf.usn0[d].last_usn
        /\ journal[d].recs[n].frn = frn
        /\ HasReason(journal[d].recs[n], {FILE_DELETE})

C26Step(frn) ==
    LET d    == ToAsciiUpper(rf.cur.drive)
        item == rf.cur.frn_map[frn]
    IN  (/\ ProcessMatch(frn, FALSE)
         /\ ResolvePathByFrn(d, frn) = NoPath)
        => /\ items' = items
           /\ rf'.result.items_updated = rf.result.items_updated
           /\ IF DeletedSince(d, frn) \/ ~GetSettingBool("usn_refresh_on_missing", TRUE)
              THEN rf'.pending = Append(rf.pending,
                                        [item_id |-> item.id, old_path |-> item.path])
              ELSE rf'.pending = rf.pending

\* C26: when a matched tracked item's FRN no longer resolves to a path, the
\* item is appended to the pending list if and only if one of its records
\* since the checkpoint carries FILE_DELETE or usn_refresh_on_missing is
\* false; in either case the step changes no item and reports nothing.
C26_DeferOnMissing == [][\A frn \in Frns : C26Step(frn)]_vars

(***************************************************************************)
(* The settings service (application/services/settings_service.rs) on the  *)
(* settings table (infrastructure/persistence/sqlite_settings_repository). *)
(***************************************************************************)
MaxSetCalls == 3    \* set and reset calls in one behaviour
SettingValues == {"false", "250"}

\* an INSERT OR IGNORE in place of the upsert: a stored value is never
\* replaced; C25_GetAfterSetReset must tell it from the statement of the source.
SqliteSettingsSet_Ignore(tbl, key, value) ==
    IF tbl[key] # NoValue THEN tbl ELSE [tbl EXCEPT ![key] = value]

\* SqliteSettingsRepository::set: INSERT .. ON CONFLICT(key) DO UPDATE SET value
SqliteSettingsSet(tbl, key, value) == [tbl EXCEPT ![key] = value]

\* SqliteSettingsRepository::delete: DELETE FROM settings WHERE key
SqliteSettingsDelete(tbl, key) == [tbl EXCEPT ![key] = NoValue]

\* SettingsService::set
SettingsSet(key, value) ==
    /\ Len(setlog) < MaxSetCalls
    /\ settings' = SqliteSettingsSet(settings, key, value)
    /\ setlog' = Append(setlog, [op |-> "set", key |-> key, value |-> value])
    /\ UNCHANGED nonSetVars

\* SettingsService::reset
SettingsReset(key) ==
    /\ Len(setlog) < MaxSetCalls
    /\ settings' = SqliteSettingsDelete(settings, key)
    /\ setlog' = Append(setlog, [op |-> "reset", key |-> key, value |-> NoValue])
    /\ UNCHANGED nonSetVars

SettingsNext ==
    \/ \E key \in SettingKeys, value \in SettingValues : SettingsSet(key, value)
    \/ \E key \in SettingKeys : SettingsReset(key)

SettingsSpec == Init /\ [][SettingsNext]_vars

\* the positions of the calls made on a key, and the last of them
CallsOn(key) == {n \in 1..Len(setlog) : setlog[n].key = key}
LastCallOn(key) ==
    setlog[CHOOSE n \in CallsOn(key) : \A m \in CallsOn(key) : m <= n]

\* C25: after any sequence of set and reset calls, get(key) returns the
\* value of the most recent set on the key if no reset of the key followed
\* it, otherwise the built-in default of a known key, otherwise none.
C25_GetAfterSetReset ==
    \A key \in SettingKeys :
        SettingsGet(key) =
            IF CallsOn(key) # {} /\ LastCallOn(key).op = "set"
            THEN LastCallOn(key).value
            ELSE SettingsDefaultsGet(key)

\* a key was set, set again to another value and then reset: get returns
\* its default, or none when the key has no default
C25_Witness ==
    /\ Len(setlog) = 3
    /\ setlog[1].op = "set" /\ setlog[2].op = "set" /\ setlog[3].op = "reset"
    /\ setlog[1].key = setlog[2].key /\ setlog[1].value # setlog[2].value
    /\ setlog[3].key = setlog[1].key
    /\ SettingsGet(setlog[1].key) = SettingsDefaultsGet(setlog[1].key)

(***************************************************************************)
(* Tags (application/services/tag_service.rs, item_service.rs and the      *)
(* repositories under infrastructure/persistence).  Every repository call  *)
(* takes a connection from the pool; `fk` tells whether that connection    *)
(* enforces foreign keys, `fails` whether the call fails in the pool.      *)
(***************************************************************************)
TagIds == 1..MaxTags

RowsOf(tbl, tag) == {r \in tbl : r[2] = tag}
ItemsOf(tbl, tag) == {r[1] : r \in RowsOf(tbl, tag)}

MergeIdle == mg.pc = "idle"

\* Another client's call lands while a merge is between two of its awaits;
\* one such call per merge is followed.
MayInterfere == MergeIdle \/ (mg.pc # "done" /\ ~mg.interfered)
Interfere == IF MergeIdle THEN mg ELSE [mg EXCEPT !.interfered = TRUE]

\* TagService::create -> SqliteTagRepository::save (AUTOINCREMENT id)
TagCreate ==
    /\ MayInterfere
    /\ tagSeq < MaxTags
    /\ tagSeq' = tagSeq + 1
    /\ tags' = tags \cup {tagSeq + 1}
    /\ mg' = Interfere
    /\ UNCHANGED item_tags
    /\ UNCHANGED nonMergeVars

\* ItemService::add_tag -> SqliteItemRepository::add_tag (INSERT OR IGNORE)
ItemAddTag(i, t, fk) ==
    /\ MayInterfere
    /\ <<i, t>> \notin item_tags
    /\ fk => t \in tags
    /\ item_tags' = item_tags \cup {<<i, t>>}
    /\ mg' = Interfere
    /\ UNCHANGED <<tags, tagSeq>>
    /\ UNCHANGED nonMergeVars

\* ItemService::remove_tag -> SqliteItemRepository::remove_tag
ItemRemoveTag(i, t) ==
    /\ MayInterfere
    /\ <<i, t>> \in item_tags
    /\ item_tags' = item_tags \ {<<i, t>>}
    /\ mg' = Interfere
    /\ UNCHANGED <<tags, tagSeq>>
    /\ UNCHANGED nonMergeVars

\* SqliteTagRepository::delete: DELETE FROM tags WHERE id = ?1, with the
\* ON DELETE CASCADE of item_tags on a connection that enforces it
DeleteTag(tg, tbl, id, fk) ==
    IF id \notin tg
    THEN [ok |-> FALSE, tags |-> tg, item_tags |-> tbl]
    ELSE [ok |-> TRUE, tags |-> tg \ {id},
          item_tags |-> IF fk THEN tbl \ RowsOf(tbl, id) ELSE tbl]

\* TagService::delete
TagDelete(t, fk) ==
    /\ MayInterfere
    /\ t \in tags
    /\ tags' = DeleteTag(tags, item_tags, t, fk).tags
    /\ item_tags' = DeleteTag(tags, item_tags, t, fk).item_tags
    /\ mg' = Interfere
    /\ UNCHANGED tagSeq
    /\ UNCHANGED nonMergeVars

\* reassign_items dropping the source's rows instead of moving them;
\* C10_MergeResult must tell it from the statements of the source.
ReassignItems_DropAll(tbl, tg, source, target, fk) ==
    [ok |-> TRUE, tbl |-> tbl \ RowsOf(tbl, source)]

\* SqliteTagRepository::reassign_items, one immediate transaction: the rows
\* of source whose item already has target are deleted, the remaining rows
\* of source get tag_id = target; a constraint failure rolls both back.
ReassignItems(tbl, tg, source, target, fk) ==
    LET dup   == {r \in RowsOf(tbl, source) : <<r[1], target>> \in tbl}
        t1    == tbl \ dup
        rest  == RowsOf(t1, source)
        moved == {<<r[1], target>> : r \in rest}
    IN  IF rest # {} /\ (moved \cap (t1 \ rest) # {} \/ (fk /\ target \notin tg))
        THEN [ok |-> FALSE, tbl |-> tbl]
        ELSE [ok |-> TRUE, tbl |-> (t1 \ rest) \cup moved]

\* TagService::merge is called (tag_service.rs:86).
MergeBegin(source, target) ==
    /\ MergeIdle
    /\ mg' = [MgIdle EXCEPT !.pc = "find_source", !.source = source, !.target = target,
                            !.expect = ItemsOf(item_tags, source) \cup
                                       ItemsOf(item_tags, target),
                            !.dup = ItemsOf(item_tags, source) \cap
                                    ItemsOf(item_tags, target),
                            !.existed = {source, target} \subseteq tags]
    /\ UNCHANGED <<tags, item_tags, tagSeq>>
    /\ UNCHANGED nonMergeVars

MergeErr == [mg EXCEPT !.pc = "done", !.ret = "err"]

\* find_by_id(source_id) (lines 88-91)
MergeFindSource(fails) ==
    /\ mg.pc = "find_source"
    /\ mg' = IF fails \/ mg.source \notin tags THEN MergeErr
             ELSE [mg EXCEPT !.pc = "find_target"]
    /\ UNCHANGED <<tags, item_tags, tagSeq>>
    /\ UNCHANGED nonMergeVars

\* find_by_id(target_id) (lines 93-96)
MergeFindTarget(fails) ==
    /\ mg.pc = "find_target"
    /\ mg' = IF fails \/ mg.target \notin tags THEN MergeErr
             ELSE [mg EXCEPT !.pc = "reassign"]
    /\ UNCHANGED <<tags, item_tags, tagSeq>>
    /\ UNCHANGED nonMergeVars

\* reassign_items(source_id, target_id) (line 99)
MergeReassign(fails, fk) ==
    LET res == ReassignItems(item_tags, tags, mg.source, mg.target, fk)
    IN  /\ mg.pc = "reassign"
        /\ IF fails \/ ~res.ok
           THEN mg' = MergeErr /\ UNCHANGED item_tags
           ELSE /\ item_tags' = res.tbl
                /\ mg' = [mg EXCEPT !.pc = "delete",
                                    !.moved = ItemsOf(item_tags, mg.source)]
        /\ UNCHANGED <<tags, tagSeq>>
        /\ UNCHANGED nonMergeVars

\* delete(source_id) (line 102), and the answer of merge
MergeDelete(fails, fk) ==
    LET res == DeleteTag(tags, item_tags, mg.source, fk)
    IN  /\ mg.pc = "delete"
        /\ IF fails \/ ~res.ok
           THEN mg' = MergeErr /\ UNCHANGED <<tags, item_tags>>
           ELSE /\ tags' = res.tags
                /\ item_tags' = res.item_tags
                /\ mg' = [mg EXCEPT !.pc = "done", !.ret = "ok"]
        /\ UNCHANGED tagSeq
        /\ UNCHANGED nonMergeVars

\* The caller has the answer.
MergeReturn ==
    /\ mg.pc = "done"
    /\ mg' = MgIdle
    /\ UNCHANGED <<tags, item_tags, tagSeq>>
    /\ UNCHANGED nonMergeVars

MergeNext ==
    \/ TagCreate
    \/ \E i \in ItemIds : \E t \in TagIds : \E fk \in BOOLEAN : ItemAddTag(i, t, fk)
    \/ \E i \in ItemIds : \E t \in TagIds : ItemRemoveTag(i, t)
    \/ \E t \in TagIds : \E fk \in BOOLEAN : TagDelete(t, fk)
    \/ \E source, target \in TagIds : MergeBegin(source, target)
    \/ \E fails \in BOOLEAN : MergeFindSource(fails)
    \/ \E fails \in BOOLEAN : MergeFindTarget(fails)
    \/ \E fails, fk \in BOOLEAN : MergeReassign(fails, fk)
    \/ \E fails, fk \in BOOLEAN : MergeDelete(fails, fk)
    \/ MergeReturn

MergeSpec == Init /\ [][MergeNext]_vars

(***************************************************************************)
(* Properties of tag merge, checked under MergeSpec.                       *)
(***************************************************************************)
\* C9: tag merge is atomic: no state exists, during the call or after a
\* failed call, in which associations of the source tag have been reassigned
\* to the target while the source tag still exists.
C9_MergeAtomic ==
    ~(/\ mg.pc \in {"delete", "done"}
      /\ mg.source # mg.target
      /\ mg.moved # {}
      /\ mg.source \in tags)

\* C10: after merge(source, target) of two different tags that existed at
\* the call returns success, and no other client changed the tables during
\* the call, every item that was associated with source or with target
\* before the call is associated with target (once: item_tags holds a row
\* at most once), no item is associated with source, and the source tag no
\* longer exists.
C10_MergeResult ==
    (/\ mg.pc = "done"
     /\ mg.ret = "ok"
     /\ mg.source # mg.target
     /\ mg.existed
     /\ ~mg.interfered)
    => /\ \A i \in mg.expect : Cardinality({r \in item_tags : r = <<i, mg.target>>}) = 1
       /\ \A i \in ItemIds : <<i, mg.source>> \notin item_tags
       /\ mg.source \notin tags

\* a successful merge of a source that had an item in common with the
\* target and an item of its own
C10_Witness ==
    /\ mg.pc = "done"
    /\ mg.ret = "ok"
    /\ mg.source # mg.target
    /\ mg.existed
    /\ ~mg.interfered
    /\ mg.dup # {}
    /\ mg.moved \ mg.dup # {}
    /\ mg.expect \ mg.moved # {}

\* C39: a merge whose source and target are the same tag deletes neither the
\* tag nor any of its item associations: while and after such a call, with
\* no other client changing the tables, the tag exists and every item that
\* was associated with it at the call still is.
C39_SelfMergeKeeps ==
    (/\ ~MergeIdle
     /\ mg.source = mg.target
     /\ mg.existed
     /\ ~mg.interfered)
    => /\ mg.source \in tags
       /\ \A i \in mg.expect : <<i, mg.source>> \in item_tags

(***************************************************************************)
(* The tables behind the item, tag and tag-group repositories.             *)
(*                                                                         *)
(* db.item_tags is a bag of <<item_id, tag_id>> rows (row -> copies), so   *)
(* that a duplicated row is a state the model can tell from a single one.  *)
(* A repository call runs on whichever pooled connection it is given:      *)
(* initialize_schema issues PRAGMA foreign_keys = ON on the one connection *)
(* it runs on, the pool is built without a post_create hook, so whether    *)
(* the connection of a call enforces foreign keys is the parameter fk.     *)
(***************************************************************************)
MaxRows  == 2       \* ids AUTOINCREMENT hands out per table
MaxOrder == 2       \* display_order values a caller passes
MaxList  == 2       \* length of a tag-id list or of a reorder list

RowIds == 1..MaxRows
Orders == 0..MaxOrder
DbPaths == {"C:\\old\\a.txt", "C:\\new\\a.txt"}
TagLists == UNION {[1..n -> RowIds] : n \in 0..MaxList}
OrderLists == UNION {[1..n -> RowIds \X Orders] : n \in 0..MaxList}

Restrict(f, S) == [x \in S |-> f[x]]

Copies(bag, row) == IF row \in DOMAIN bag THEN bag[row] ELSE 0

AddRow(bag, row) ==
    [r \in DOMAIN bag \cup {row} |-> Copies(bag, r) + (IF r = row THEN 1 ELSE 0)]

DeleteRows(bag, rows) == Restrict(bag, DOMAIN bag \ rows)

RowsOfItem(bag, item_id) == {r \in DOMAIN bag : r[1] = item_id}
RowsOfTags(bag, tag_ids) == {r \in DOMAIN bag : r[2] \in tag_ids}

\* PRIMARY KEY (item_id, tag_id) of item_tags
PkConflict(bag, row) == row \in DOMAIN bag

\* the two REFERENCES clauses of item_tags, checked on a connection that
\* enforces foreign keys
FkViolation(d, row) == row[1] \notin DOMAIN d.items \/ row[2] \notin DOMAIN d.tags

\* INSERT OR IGNORE with the key dropped from the table; C11_NoDuplicateRow
\* must tell it from the statement of the source.
InsertOrIgnore_NoKey(bag, row) == AddRow(bag, row)

\* INSERT OR IGNORE INTO item_tags: a row whose key is present is skipped
InsertOrIgnore(bag, row) == IF PkConflict(bag, row) THEN bag ELSE AddRow(bag, row)

\* SqliteItemRepository::add_tag.  OR IGNORE skips a key conflict before any
\* row is written; a foreign-key failure is not ignored.
SqliteItemAddTag(d, item_id, tag_id, fk) ==
    LET row == <<item_id, tag_id>>
    IN  IF fk /\ ~PkConflict(d.item_tags, row) /\ FkViolation(d, row)
        THEN [ret |-> "ValidationError", db |-> d]
        ELSE [ret |-> "Ok",
              db |-> [d EXCEPT !.item_tags = InsertOrIgnore(d.item_tags, row)]]

\* SqliteItemRepository::remove_tag: DELETE ... WHERE item_id AND tag_id
SqliteItemRemoveTag(d, item_id, tag_id) ==
    [ret |-> "Ok",
     db |-> [d EXCEPT !.item_tags = DeleteRows(d.item_tags, {<<item_id, tag_id>>})]]

\* the loop of replace_tags: one plain INSERT per element of tag_ids, the
\* first failure ends the loop
RECURSIVE InsertTags(_, _, _, _, _)
InsertTags(d, bag, item_id, tag_ids, fk) ==
    IF tag_ids = <<>> THEN [ok |-> TRUE, bag |-> bag]
    ELSE LET row == <<item_id, Head(tag_ids)>>
         IN  IF PkConflict(bag, row) \/ (fk /\ FkViolation(d, row))
             THEN [ok |-> FALSE, bag |-> bag]
             ELSE InsertTags(d, AddRow(bag, row), item_id, Tail(tag_ids), fk)

\* SqliteItemRepository::replace_tags: one transaction; the item must exist
\* with is_deleted = 0; its rows are deleted, the listed ones inserted;
\* ROLLBACK on any error
SqliteItemReplaceTags(d, item_id, tag_ids, fk) ==
    IF ~(item_id \in DOMAIN d.items /\ ~d.items[item_id].is_deleted)
    THEN [ret |-> "ItemNotFound", db |-> d]
    ELSE LET cleared == DeleteRows(d.item_tags, RowsOfItem(d.item_tags, item_id))
             ins == InsertTags(d, cleared, item_id, tag_ids, fk)
         IN  IF ins.ok THEN [ret |-> "Ok", db |-> [d EXCEPT !.item_tags = ins.bag]]
             ELSE [ret |-> "ValidationError", db |-> d]

\* SqliteItemRepository::save: INSERT INTO items; path is UNIQUE; the id comes
\* from AUTOINCREMENT
SqliteItemSave(d, path) ==
    IF \E o \in DOMAIN d.items : d.items[o].path = path
    THEN [ret |-> "ValidationError", db |-> d]
    ELSE LET id == d.sqlite_sequence.items + 1
         IN  [ret |-> "Ok",
              db |-> [d EXCEPT !.sqlite_sequence.items = id,
                               !.items = [i \in DOMAIN d.items \cup {id} |->
                                   IF i = id
                                   THEN [path |-> path, frn |-> 0, is_deleted |-> FALSE,
                                         deleted_at |-> 0, updated_at |-> 0]
                                   ELSE d.items[i]]]]

\* SqliteItemRepository::soft_delete
SqliteItemSoftDelete(d, id, t) ==
    IF id \notin DOMAIN d.items THEN [ret |-> "ItemNotFound", db |-> d]
    ELSE IF d.items[id].is_deleted THEN [ret |-> "ItemAlreadyDeleted", db |-> d]
    ELSE [ret |-> "Ok",
          db |-> [d EXCEPT !.items[id].is_deleted = TRUE, !.items[id].deleted_at = t,
                           !.items[id].updated_at = t]]

\* SqliteItemRepository::delete: DELETE FROM items WHERE id; ON DELETE CASCADE
\* of item_tags.item_id acts on a connection that enforces foreign keys
SqliteItemDelete(d, id, fk) ==
    IF id \notin DOMAIN d.items THEN [ret |-> "ItemNotFound", db |-> d]
    ELSE [ret |-> "Ok",
          db |-> [d EXCEPT !.items = Restrict(d.items, DOMAIN d.items \ {id}),
                           !.item_tags = IF fk
                                         THEN DeleteRows(d.item_tags,
                                                         RowsOfItem(d.item_tags, id))
                                         ELSE d.item_tags]]

\* SqliteTagRepository::save: the group must exist, then INSERT INTO tags
SqliteTagSave(d, group_id) ==
    IF group_id \notin DOMAIN d.tag_groups THEN [ret |-> "TagGroupNotFound", db |-> d]
    ELSE LET id == d.sqlite_sequence.tags + 1
         IN  [ret |-> "Ok",
              db |-> [d EXCEPT !.sqlite_sequence.tags = id,
                               !.tags = [i \in DOMAIN d.tags \cup {id} |->
                                   IF i = id THEN [group_id |-> group_id]
                                   ELSE d.tags[i]]]]

\* SqliteTagRepository::delete on the row-level tables
SqliteTagDelete(d, id, fk) ==
    IF id \notin DOMAIN d.tags THEN [ret |-> "TagNotFound", db |-> d]
    ELSE [ret |-> "Ok",
          db |-> [d EXCEPT !.tags = Restrict(d.tags, DOMAIN d.tags \ {id}),
                           !.item_tags = IF fk
                                         THEN DeleteRows(d.item_tags,
                                                         RowsOfTags(d.item_tags, {id}))
                                         ELSE d.item_tags]]

\* TagGroupService::create: display_order is one more than the largest one
MaxDisplayOrder(groups) ==
    IF DOMAIN groups = {} THEN 0
    ELSE CHOOSE m \in {groups[g].display_order : g \in DOMAIN groups} :
            \A g \in DOMAIN groups : groups[g].display_order <= m

\* SqliteTagGroupRepository::save
SqliteTagGroupSave(d, display_order) ==
    LET id == d.sqlite_sequence.tag_groups + 1
    IN  [ret |-> "Ok",
         db |-> [d EXCEPT !.sqlite_sequence.tag_groups = id,
                          !.tag_groups = [i \in DOMAIN d.tag_groups \cup {id} |->
                              IF i = id THEN [display_order |-> display_order]
                              ELSE d.tag_groups[i]]]]

\* SqliteTagGroupRepository::delete: DELETE FROM tag_groups WHERE id; on a
\* connection that enforces foreign keys the tags of the group go with it,
\* and the item_tags rows of those tags
SqliteTagGroupDelete(d, id, fk) ==
    IF id \notin DOMAIN d.tag_groups THEN [ret |-> "TagGroupNotFound", db |-> d]
    ELSE LET gone == IF fk THEN {t \in DOMAIN d.tags : d.tags[t].group_id = id} ELSE {}
         IN  [ret |-> "Ok",
              db |-> [d EXCEPT !.tag_groups = Restrict(d.tag_groups,
                                                       DOMAIN d.tag_groups \ {id}),
                               !.tags = Restrict(d.tags, DOMAIN d.tags \ gone),
                               !.item_tags = DeleteRows(d.item_tags,
                                                        RowsOfTags(d.item_tags, gone))]]

(***************************************************************************)
(* The calls of the item, tag and tag-group services on those tables.      *)
(***************************************************************************)
\* TagGroupService::create
DbGroupCreate ==
    /\ db.sqlite_sequence.tag_groups < MaxRows
    /\ db' = SqliteTagGroupSave(db, MaxDisplayOrder(db.tag_groups) + 1).db
    /\ UNCHANGED call
    /\ UNCHANGED nonDbVars

\* TagService::create: group_repo.exists, then tag_repo.save
DbTagCreate(group_id) ==
    /\ db.sqlite_sequence.tags < MaxRows
    /\ db' = IF group_id \in DOMAIN db.tag_groups
             THEN SqliteTagSave(db, group_id).db
             ELSE db
    /\ UNCHANGED call
    /\ UNCHANGED nonDbVars

\* ItemService::create
DbItemCreate(path) ==
    /\ db.sqlite_sequence.items < MaxRows
    /\ db' = SqliteItemSave(db, path).db
    /\ UNCHANGED call
    /\ UNCHANGED nonDbVars

\* ItemService::add_tag
DbAddTag(item_id, tag_id, fk) ==
    /\ db' = SqliteItemAddTag(db, item_id, tag_id, fk).db
    /\ UNCHANGED call
    /\ UNCHANGED nonDbVars

\* ItemService::remove_tag
DbRemoveTag(item_id, tag_id) ==
    /\ db' = SqliteItemRemoveTag(db, item_id, tag_id).db
    /\ UNCHANGED call
    /\ UNCHANGED nonDbVars

\* ItemService::update_tags
DbUpdateTags(item_id, tag_ids, fk) ==
    /\ db' = SqliteItemReplaceTags(db, item_id, tag_ids, fk).db
    /\ UNCHANGED call
    /\ UNCHANGED nonDbVars

\* ItemRepository::soft_delete
DbItemSoftDelete(item_id) ==
    /\ db' = SqliteItemSoftDelete(db, item_id, now).db
    /\ UNCHANGED call
    /\ UNCHANGED nonDbVars

\* ItemService::delete
DbItemDelete(item_id, fk) ==
    /\ db' = SqliteItemDelete(db, item_id, fk).db
    /\ UNCHANGED call
    /\ UNCHANGED nonDbVars

\* TagService::delete
DbTagDelete(tag_id, fk) ==
    /\ db' = SqliteTagDelete(db, tag_id, fk).db
    /\ UNCHANGED call
    /\ UNCHANGED nonDbVars

\* TagGroupService::delete
DbGroupDelete(group_id, fk) ==
    /\ db' = SqliteTagGroupDelete(db, group_id, fk).db
    /\ UNCHANGED call
    /\ UNCHANGED nonDbVars

DbNext ==
    \/ DbGroupCreate
    \/ \E g \in RowIds : DbTagCreate(g)
    \/ \E p \in DbPaths : DbItemCreate(p)
    \/ \E i \in RowIds, t \in RowIds, fk \in BOOLEAN : DbAddTag(i, t, fk)
    \/ \E i \in RowIds, t \in RowIds : DbRemoveTag(i, t)
    \/ \E i \in RowIds, l \in TagLists, fk \in BOOLEAN : DbUpdateTags(i, l, fk)
    \/ \E i \in RowIds : DbItemSoftDelete(i)
    \/ \E i \in RowIds, fk \in BOOLEAN : DbItemDelete(i, fk)
    \/ \E t \in RowIds, fk \in BOOLEAN : DbTagDelete(t, fk)
    \/ \E g \in RowIds, fk \in BOOLEAN : DbGroupDelete(g, fk)

DbSpec == Init /\ [][DbNext]_vars

\* the tag ids associated with an item, with the copies of each row
TagsOfItem(d, item_id) == Restrict(d.item_tags, RowsOfItem(d.item_tags, item_id))

\* C11: whatever add_tag, remove_tag and replace_tags calls were made, and
\* whether they succeeded or failed, item_tags never holds two rows with the
\* same (item_id, tag_id).
C11_NoDuplicateRow == \A r \in DOMAIN db.item_tags : db.item_tags[r] = 1

\* an item that exists carries two tags that exist: rows were inserted for it
\* more than once
C11_Witness ==
    \E i \in DOMAIN db.items :
        /\ Cardinality(RowsOfItem(db.item_tags, i)) = 2
        /\ \A r \in RowsOfItem(db.item_tags, i) : r[2] \in DOMAIN db.tags

\* C13: every item_tags row references an item and a tag that exist: no call
\* that names a missing item or tag adds a row, and deleting an item, a tag
\* or the group of a tag removes the item_tags rows that refer to it.
C13_NoOrphanRow ==
    \A r \in DOMAIN db.item_tags : r[1] \in DOMAIN db.items /\ r[2] \in DOMAIN db.tags

\* C15: replace_tags called twice with the same item and the same list of tag
\* ids leaves the item with the associations it had after the first call.
C15_ReplaceTagsIdempotent ==
    \A i \in RowIds, l \in TagLists, fk1 \in BOOLEAN, fk2 \in BOOLEAN :
        LET once == SqliteItemReplaceTags(db, i, l, fk1).db
            twice == SqliteItemReplaceTags(once, i, l, fk2).db
        IN  TagsOfItem(twice, i) = TagsOfItem(once, i)

(***************************************************************************)
(* update and reorder.  The entity handed to update was read earlier, so   *)
(* its row may be gone by the time update runs; `call` keeps the name, the *)
(* id argument and the result of the last update or reorder call.          *)
(***************************************************************************)
\* SqliteTagRepository::update without the existence check
SqliteTagUpdate_NoCheck(d, id, group_id, fk) ==
    IF id \notin DOMAIN d.tags THEN [ret |-> "Ok", db |-> d]
    ELSE IF fk /\ group_id \notin DOMAIN d.tag_groups
    THEN [ret |-> "ValidationError", db |-> d]
    ELSE [ret |-> "Ok", db |-> [d EXCEPT !.tags[id].group_id = group_id]]

\* SqliteTagRepository::update: the existence check (QueryReturnedNoRows,
\* mapped to TagNotFound), then UPDATE tags SET value, group_id
SqliteTagUpdate(d, id, group_id, fk) ==
    IF id \notin DOMAIN d.tags THEN [ret |-> "TagNotFound", db |-> d]
    ELSE IF fk /\ group_id \notin DOMAIN d.tag_groups
    THEN [ret |-> "ValidationError", db |-> d]
    ELSE [ret |-> "Ok", db |-> [d EXCEPT !.tags[id].group_id = group_id]]

\* SqliteTagGroupRepository::update: the existence check (QueryReturnedNoRows,
\* mapped to TagGroupNotFound), then UPDATE tag_groups SET name, color,
\* display_order
SqliteTagGroupUpdate(d, id, display_order) ==
    IF id \notin DOMAIN d.tag_groups THEN [ret |-> "TagGroupNotFound", db |-> d]
    ELSE [ret |-> "Ok", db |-> [d EXCEPT !.tag_groups[id].display_order = display_order]]

\* the loop of reorder: UPDATE tag_groups SET display_order WHERE id, one
\* statement per pair; a pair whose id matches no row updates nothing
RECURSIVE ReorderRows(_, _)
ReorderRows(groups, orders) ==
    IF orders = <<>> THEN groups
    ELSE LET id == Head(orders)[1]
             order == Head(orders)[2]
         IN  ReorderRows(IF id \in DOMAIN groups
                         THEN [groups EXCEPT ![id].display_order = order]
                         ELSE groups,
                         Tail(orders))

\* SqliteTagGroupRepository::reorder
SqliteTagGroupReorder(d, orders) ==
    [ret |-> "Ok", db |-> [d EXCEPT !.tag_groups = ReorderRows(d.tag_groups, orders)]]

\* ItemRepository::update
ItemUpdate(id, path) ==
    LET r == SqliteItemUpdate(db.items, [id |-> id, path |-> path, frn |-> 0], now)
    IN  /\ db' = [db EXCEPT !.items = r.tbl]
        /\ call' = [op |-> "item_update", id |-> id,
                    ret |-> IF r.ok THEN "Ok" ELSE r.err]
        /\ UNCHANGED nonDbVars

\* TagRepository::update
TagUpdate(id, group_id, fk) ==
    LET r == SqliteTagUpdate(db, id, group_id, fk)
    IN  /\ db' = r.db
        /\ call' = [op |-> "tag_update", id |-> id, ret |-> r.ret]
        /\ UNCHANGED nonDbVars

\* TagGroupRepository::update
TagGroupUpdate(id, display_order) ==
    LET r == SqliteTagGroupUpdate(db, id, display_order)
    IN  /\ db' = r.db
        /\ call' = [op |-> "tag_group_update", id |-> id, ret |-> r.ret]
        /\ UNCHANGED nonDbVars

\* TagGroupService::reorder
TagGroupReorder(orders) ==
    LET r == SqliteTagGroupReorder(db, orders)
    IN  /\ db' = r.db
        /\ call' = [op |-> "reorder", id |-> 0, ret |-> r.ret]
        /\ UNCHANGED nonDbVars

UpdateNext ==
    \/ DbGroupCreate
    \/ \E g \in RowIds : DbTagCreate(g)
    \/ \E p \in DbPaths : DbItemCreate(p)
    \/ \E i \in RowIds, p \in DbPaths : ItemUpdate(i, p)
    \/ \E t \in RowIds, g \in RowIds, fk \in BOOLEAN : TagUpdate(t, g, fk)
    \/ \E g \in RowIds, o \in Orders : TagGroupUpdate(g, o)
    \/ \E o \in OrderLists : TagGroupReorder(o)

UpdateSpec == Init /\ [][UpdateNext]_vars

DistinctOrders(groups) ==
    \A g, h \in DOMAIN groups : g # h => groups[g].display_order # groups[h].display_order

\* C12: when a reorder call returns success, the display_order values of the
\* tag_groups rows are pairwise distinct.
C12_ReorderDistinct ==
    [][(\E o \in OrderLists : TagGroupReorder(o)) /\ call'.ret = "Ok"
         => DistinctOrders(db'.tag_groups)]_vars

\* C14: update of an item, of a tag or of a tag group whose id matches no row
\* returns ItemNotFound, TagNotFound or TagGroupNotFound and changes no row;
\* it never returns Ok.
C14_UpdateNotFound ==
    [][\A id \in RowIds :
        /\ (\E p \in DbPaths : ItemUpdate(id, p)) /\ id \notin DOMAIN db.items
              => call'.ret = "ItemNotFound" /\ db' = db
        /\ (\E g \in RowIds, fk \in BOOLEAN : TagUpdate(id, g, fk))
              /\ id \notin DOMAIN db.tags
              => call'.ret = "TagNotFound" /\ db' = db
        /\ (\E o \in Orders : TagGroupUpdate(id, o)) /\ id \notin DOMAIN db.tag_groups
              => call'.ret = "TagGroupNotFound" /\ db' = db]_vars

\* update was called with the id of a row that is not there, in a table that
\* has rows
C14_Witness ==
    \/ call.op = "item_update" /\ call.ret = "ItemNotFound" /\ DOMAIN db.items # {}
    \/ call.op = "tag_update" /\ call.ret = "TagNotFound" /\ DOMAIN db.tags # {}
    \/ call.op = "tag_group_update" /\ call.ret = "TagGroupNotFound"
       /\ DOMAIN db.tag_groups # {}

\* the ids a reorder list names
ReorderIds(orders) == {orders[k][1] : k \in 1..Len(orders)}

\* C29: a reorder whose list names a tag group that does not exist returns
\* TagGroupNotFound and changes no display_order.
C29_ReorderNotFound ==
    [][\A o \in OrderLists :
        TagGroupReorder(o) /\ ~(ReorderIds(o) \subseteq DOMAIN db.tag_groups)
            => call'.ret = "TagGroupNotFound" /\ db' = db]_vars

(***************************************************************************)
(* Startup: init_database on an existing database file                     *)
(* (infrastructure/persistence/schema.rs).                                 *)
(***************************************************************************)
\* tag_groups.name, UNIQUE, given as its place in the collation order: the
\* groups were named so that a group created later sorts earlier
NameOf(id) == MaxRows + 1 - id

ZeroOrdered(groups) == {g \in DOMAIN groups : groups[g].display_order = 0}

\* SELECT COUNT(*) > 1 FROM tag_groups WHERE display_order = 0, read as an
\* i64 (the comparison's 0 or 1) and mapped with |count| count > 1
NeedsMigration(groups) ==
    LET count == IF Cardinality(ZeroOrdered(groups)) > 1 THEN 1 ELSE 0
    IN  count > 1

\* SELECT COUNT(*) FROM tag_groups t2 WHERE t2.name < name OR (t2.name = name
\* AND t2.id < id)
NameRank(groups, g) ==
    Cardinality({h \in DOMAIN groups :
                    \/ NameOf(h) < NameOf(g)
                    \/ NameOf(h) = NameOf(g) /\ h < g})

\* migrate_tag_group_order
MigrateTagGroupOrder(d) ==
    IF NeedsMigration(d.tag_groups)
    THEN [d EXCEPT !.tag_groups =
             [g \in DOMAIN d.tag_groups |->
                 [d.tag_groups[g] EXCEPT !.display_order = NameRank(d.tag_groups, g)]]]
    ELSE d

\* init_database when the application starts on the database file as it
\* is: initialize_schema creates no table that exists and touches no row,
\* then migrate_tag_group_order runs
InitDatabase ==
    /\ db' = MigrateTagGroupOrder(db)
    /\ call' = [op |-> "init_database", id |-> 0, ret |-> "Ok"]
    /\ UNCHANGED nonDbVars

StartupNext == UpdateNext \/ InitDatabase

StartupSpec == Init /\ [][StartupNext]_vars

\* C30: if more than one tag_groups row has display_order 0 when the startup
\* migration runs, then afterwards each row's display_order equals its rank
\* in (name, id) order and all display_order values are pairwise distinct;
\* if at most one row has display_order 0, the migration changes nothing.
C30_MigrationRenumbers ==
    [][InitDatabase =>
          IF Cardinality(ZeroOrdered(db.tag_groups)) > 1
          THEN /\ \A g \in DOMAIN db.tag_groups :
                     db'.tag_groups[g].display_order = NameRank(db.tag_groups, g)
               /\ DistinctOrders(db'.tag_groups)
          ELSE db' = db]_vars

(***************************************************************************)
(* TagGroupService::create step by step: find_all and save are two calls   *)
(* on the pool, and the calls of another task can run between them.        *)
(* DbGroupCreate above is a create call nothing runs in between.           *)
(***************************************************************************)
\* create, first await: find_all, and the largest display_order read
GroupCreateFind(c) ==
    /\ gc[c].pc = "idle"
    /\ gc' = [gc EXCEPT ![c] = [pc |-> "save",
                                max_order |-> MaxDisplayOrder(db.tag_groups),
                                id |-> 0]]
    /\ UNCHANGED <<dbVars, tp>>
    /\ UNCHANGED nonSvcVars

\* create, second await: the group is saved with max_order + 1
GroupCreateSave(c) ==
    /\ gc[c].pc = "save"
    /\ db.sqlite_sequence.tag_groups < MaxRows
    /\ db' = SqliteTagGroupSave(db, gc[c].max_order + 1).db
    /\ gc' = [gc EXCEPT ![c].pc = "done", ![c].id = db.sqlite_sequence.tag_groups + 1]
    /\ UNCHANGED <<call, tp>>
    /\ UNCHANGED nonSvcVars

\* create has returned the id
GroupCreateReturn(c) ==
    /\ gc[c].pc = "done"
    /\ gc' = [gc EXCEPT ![c] = GcIdle]
    /\ UNCHANGED <<dbVars, tp>>
    /\ UNCHANGED nonSvcVars

CreateNext ==
    \/ \E c \in Creators : GroupCreateFind(c)
    \/ \E c \in Creators : GroupCreateSave(c)
    \/ \E c \in Creators : GroupCreateReturn(c)
    \/ \E g \in RowIds, o \in Orders : TagGroupUpdate(g, o)

CreateSpec == Init /\ [][CreateNext]_vars

\* the group task c saves is ordered behind every group there is
C38Step(c) ==
    GroupCreateSave(c) =>
        \A g \in DOMAIN db.tag_groups :
            db.tag_groups[g].display_order < db'.tag_groups[gc'[c].id].display_order

\* C38: a tag group created through the service receives a display_order
\* greater than every display_order that exists when it is created, so the
\* groups created are ordered pairwise differently, also when two create
\* calls run beside each other.
C38_FreshDisplayOrder == [][\A c \in Creators : C38Step(c)]_vars

(***************************************************************************)
(* TagTemplateService::apply_to_item step by step, beside the add_tag      *)
(* calls of other tasks.  The template is what find_by_id returned.        *)
(***************************************************************************)
\* SqliteItemRepository::get_tag_ids: the tag_id of every item_tags row of
\* the item, from tag id t on
RECURSIVE GetTagIdsFrom(_, _, _)
GetTagIdsFrom(bag, item_id, t) ==
    IF t > MaxRows THEN <<>>
    ELSE [n \in 1..Copies(bag, <<item_id, t>>) |-> t] \o GetTagIdsFrom(bag, item_id, t + 1)

GetTagIds(d, item_id) == GetTagIdsFrom(d.item_tags, item_id, 1)

\* the loop of apply_to_item: a template tag the list does not hold is
\* pushed behind it
RECURSIVE MergeTemplateTags(_, _)
MergeTemplateTags(all_tags, tag_ids) ==
    IF tag_ids = <<>> THEN all_tags
    ELSE MergeTemplateTags(
            IF \E k \in 1..Len(all_tags) : all_tags[k] = Head(tag_ids)
            THEN all_tags ELSE Append(all_tags, Head(tag_ids)),
            Tail(tag_ids))

\* apply_to_item is called and find_by_id has returned the template
ApplyBegin(item_id, tag_ids) ==
    /\ tp.pc = "idle"
    /\ tp' = [TpIdle EXCEPT !.pc = "get", !.item_id = item_id, !.template = tag_ids]
    /\ UNCHANGED <<dbVars, gc>>
    /\ UNCHANGED nonSvcVars

\* get_tag_ids(item_id), and the template's tags merged into the list
ApplyGetTagIds ==
    /\ tp.pc = "get"
    /\ tp' = [tp EXCEPT !.pc = "replace",
                        !.all_tags = MergeTemplateTags(GetTagIds(db, tp.item_id),
                                                       tp.template)]
    /\ UNCHANGED <<dbVars, gc>>
    /\ UNCHANGED nonSvcVars

\* replace_tags(item_id, all_tags), whose answer is apply_to_item's
ApplyReplaceTags(fk) ==
    LET r == SqliteItemReplaceTags(db, tp.item_id, tp.all_tags, fk)
    IN  /\ tp.pc = "replace"
        /\ db' = r.db
        /\ tp' = [tp EXCEPT !.pc = "done", !.ret = r.ret]
        /\ UNCHANGED <<call, gc>>
        /\ UNCHANGED nonSvcVars

\* the caller has the answer
ApplyReturn ==
    /\ tp.pc = "done"
    /\ tp' = TpIdle
    /\ UNCHANGED <<dbVars, gc>>
    /\ UNCHANGED nonSvcVars

TemplateNext ==
    \/ \E g \in RowIds : DbTagCreate(g)
    \/ DbGroupCreate
    \/ \E p \in DbPaths : DbItemCreate(p)
    \/ \E i \in RowIds, t \in RowIds, fk \in BOOLEAN : DbAddTag(i, t, fk)
    \/ \E i \in RowIds, l \in TagLists : ApplyBegin(i, l)
    \/ ApplyGetTagIds
    \/ \E fk \in BOOLEAN : ApplyReplaceTags(fk)
    \/ ApplyReturn

TemplateSpec == Init /\ [][TemplateNext]_vars

\* C37: applying a template to an item only adds tags: no association the
\* item has when replace_tags runs, be it from before the call or from an
\* add_tag that ran during the call, is gone after it.
C37_ApplyOnlyAdds ==
    [][(\E fk \in BOOLEAN : ApplyReplaceTags(fk))
          => \A row \in DOMAIN db.item_tags : row \in DOMAIN db'.item_tags]_vars

(***************************************************************************)
(* Search by tags (SearchService::search_by_tags_and over                  *)
(* SqliteSearchRepository::search_by_tags_and).                            *)
(***************************************************************************)
\* the paths of DbPaths in the order of ORDER BY i.path ASC
PathsAscending == <<"C:\\new\\a.txt", "C:\\old\\a.txt">>

\* the tag ids of a list, each once
ListedTags(tag_ids) == {tag_ids[k] : k \in 1..Len(tag_ids)}

\* COUNT(DISTINCT it.tag_id) of the group of item i after the join filtered
\* by it.tag_id IN (tag_ids)
CountDistinctTags(d, i, tag_ids) ==
    Cardinality({t \in ListedTags(tag_ids) : <<i, t>> \in DOMAIN d.item_tags})

\* the groups of the query that pass HAVING COUNT(DISTINCT it.tag_id) =
\* tag_count, tag_count being the length of the list
GroupsHaving(d, tag_ids) ==
    {i \in DOMAIN d.items :
        /\ \E t \in ListedTags(tag_ids) : <<i, t>> \in DOMAIN d.item_tags
        /\ CountDistinctTags(d, i, tag_ids) = Len(tag_ids)}

\* the rows of the groups, one per group, from path number k on
RECURSIVE RowsByPath(_, _, _)
RowsByPath(d, groups, k) ==
    IF k > Len(PathsAscending) THEN <<>>
    ELSE LET here == {i \in groups : d.items[i].path = PathsAscending[k]}
         IN  (IF here = {} THEN <<>> ELSE <<CHOOSE i \in here : TRUE>>)
                 \o RowsByPath(d, groups, k + 1)

\* SqliteSearchRepository::search_by_tags_and: the ids of the items returned
SqliteSearchByTagsAnd(d, tag_ids) == RowsByPath(d, GroupsHaving(d, tag_ids), 1)

\* SearchService::search_by_tags_and: an empty list is answered without the
\* repository
SearchByTagsAnd(tag_ids) ==
    /\ call' = [op |-> "search_by_tags_and", id |-> 0, ret |-> "Ok",
                rows |-> IF tag_ids = <<>> THEN <<>>
                         ELSE SqliteSearchByTagsAnd(db, tag_ids)]
    /\ UNCHANGED db
    /\ UNCHANGED nonDbVars

TagSearchNext ==
    \/ \E g \in RowIds : DbTagCreate(g)
    \/ DbGroupCreate
    \/ \E p \in DbPaths : DbItemCreate(p)
    \/ \E i \in RowIds, t \in RowIds, fk \in BOOLEAN : DbAddTag(i, t, fk)
    \/ \E l \in TagLists : SearchByTagsAnd(l)

TagSearchSpec == Init /\ [][TagSearchNext]_vars

\* the items associated with every tag id of the list
HavingAllTags(d, tag_ids) ==
    {i \in DOMAIN d.items : \A k \in 1..Len(tag_ids) : <<i, tag_ids[k]>> \in DOMAIN d.item_tags}

\* C31: search_by_tags_and called with a non-empty list of tag ids returns
\* exactly the items associated with every tag id of the list, each once.
C31_TagsAndExact ==
    [][\A l \in TagLists :
          SearchByTagsAnd(l) /\ l # <<>>
              => /\ {call'.rows[k] : k \in 1..Len(call'.rows)} = HavingAllTags(db, l)
                 /\ Len(call'.rows) = Cardinality(HavingAllTags(db, l))]_vars

(***************************************************************************)
(* Search and its history (application/services/search_service.rs,         *)
(* infrastructure/persistence/sqlite_search_history_repository.rs,         *)
(* domain/entities/search_history.rs).                                     *)
(***************************************************************************)
MaxSearches == 3    \* calls of the search service in one behaviour

SearchTexts == {NoValue, "a", " "}      \* filename_query: None, a name, blanks
SearchTagLists == {<<>>, <<1>>, <<1, 2>>, <<2, 1>>}
SearchModes == {"AND", "OR"}
SearchDtos ==
    [filename_query : SearchTexts, tag_ids : SearchTagLists, mode : SearchModes]
CqlQueries == {"", " ", "tag = 1"}

\* a sort that leaves the list as the caller gave it; C22_SaveTwiceOneRow
\* must tell it from the sort of the source.
SortUnstable_Keep(list) == list

\* slice::sort_unstable on a list of ids: the ascending arrangement
SortUnstable(list) ==
    CHOOSE sorted \in [1..Len(list) -> {list[k] : k \in 1..Len(list)}] :
        /\ \A x \in {list[k] : k \in 1..Len(list)} :
              Cardinality({k \in 1..Len(list) : sorted[k] = x})
                  = Cardinality({k \in 1..Len(list) : list[k] = x})
        /\ \A i, j \in 1..Len(list) : i < j => sorted[i] <= sorted[j]

\* SearchCriteria::new: tag_ids sorted, a blank text query becomes None
SearchCriteriaNew(text_query, tag_ids, mode) ==
    [text_query |-> IF text_query # NoValue /\ Trim(text_query) # ""
                    THEN text_query ELSE NoValue,
     tag_ids |-> SortUnstable(tag_ids),
     mode |-> mode]

\* SELECT tag_id FROM search_history_tags WHERE search_history_id = ? ORDER
\* BY tag_id ASC
HistoryTags(h, id) ==
    LET ids == {r[2] : r \in {x \in h.tags : x[1] = id}}
    IN  CHOOSE list \in [1..Cardinality(ids) -> ids] :
            \A i, j \in 1..Cardinality(ids) : i < j => list[i] < list[j]

\* the rows SearchHistoryRepository::save compares the criteria with: same
\* text_query, same search_mode, same tag list
HistoryMatches(h, criteria) ==
    {id \in DOMAIN h.rows :
        /\ h.rows[id].text_query = criteria.text_query
        /\ h.rows[id].search_mode = criteria.mode
        /\ HistoryTags(h, id) = criteria.tag_ids}

\* SqliteSearchHistoryRepository::save, one transaction: the matching row's
\* last_used_at is set to unixepoch(), or a header row and one row per tag
\* id are inserted
HistorySave(h, criteria) ==
    IF HistoryMatches(h, criteria) # {}
    THEN LET id == CHOOSE m \in HistoryMatches(h, criteria) :
                       \A o \in HistoryMatches(h, criteria) : m <= o
         IN  [h EXCEPT !.rows[id].last_used_at = h.now]
    ELSE LET new_id == h.seq + 1
         IN  [h EXCEPT
                !.seq = new_id,
                !.rows = [i \in DOMAIN h.rows \cup {new_id} |->
                            IF i = new_id
                            THEN [text_query |-> criteria.text_query,
                                  search_mode |-> criteria.mode,
                                  last_used_at |-> h.now]
                            ELSE h.rows[i]],
                !.tags = h.tags \cup {<<new_id, criteria.tag_ids[k]>> :
                                         k \in 1..Len(criteria.tag_ids)}]

SearchGuard ==
    /\ Len(hlog) < MaxSearches
    /\ UNCHANGED nonHistVars

Tick(h) == [h EXCEPT !.now = h.now + 1]

\* SearchService::search: nothing is done for criteria with no tag and no
\* file name; otherwise search_combined runs and the criteria are saved
Search(dto) ==
    LET has_tags     == dto.tag_ids # <<>>
        has_filename == dto.filename_query # NoValue /\ Trim(dto.filename_query) # ""
    IN  /\ SearchGuard
        /\ hlog' = Append(hlog, [op |-> "search", dto |-> dto, query |-> "",
                                  at |-> hist.now + 1])
        /\ IF ~has_tags /\ ~has_filename
           THEN hist' = Tick(hist)
           ELSE hist' = HistorySave(Tick(hist),
                            SearchCriteriaNew(dto.filename_query, dto.tag_ids, dto.mode))

\* SearchService::search_cql: the trimmed query, when not empty, is handed
\* to search_repo.search_cql and its result returned
SearchCql(query) ==
    /\ SearchGuard
    /\ hlog' = Append(hlog, [op |-> "search_cql", dto |-> <<>>, query |-> query,
                              at |-> hist.now + 1])
    /\ hist' = Tick(hist)

\* SearchService::delete_history: DELETE FROM search_histories WHERE id; fk:
\* the connection enforces foreign keys and the tag rows go with the header
DeleteHistory(id, fk) ==
    /\ SearchGuard
    /\ hlog' = Append(hlog, [op |-> "delete", dto |-> <<>>, query |-> "",
                              at |-> hist.now + 1])
    /\ hist' = [Tick(hist) EXCEPT
                   !.rows = Restrict(@, DOMAIN @ \ {id}),
                   !.tags = IF fk THEN {r \in @ : r[1] # id} ELSE @]

\* SearchService::clear_history: DELETE FROM search_histories
ClearHistory(fk) ==
    /\ SearchGuard
    /\ hlog' = Append(hlog, [op |-> "clear", dto |-> <<>>, query |-> "",
                              at |-> hist.now + 1])
    /\ hist' = [Tick(hist) EXCEPT !.rows = EmptyTable,
                                   !.tags = IF fk THEN {} ELSE @]

SearchNext ==
    \/ \E dto \in SearchDtos : Search(dto)
    \/ \E query \in CqlQueries : SearchCql(query)
    \/ \E id \in 1..MaxSearches, fk \in BOOLEAN : DeleteHistory(id, fk)
    \/ \E fk \in BOOLEAN : ClearHistory(fk)

SearchSpec == Init /\ [][SearchNext]_vars

LastSearch == hlog[Len(hlog)]

\* the criteria of a combined search that is not empty
Recorded(entry) ==
    /\ entry.op = "search"
    /\ \/ entry.dto.tag_ids # <<>>
       \/ entry.dto.filename_query # NoValue /\ Trim(entry.dto.filename_query) # ""

\* the history rows that hold the given text query, mode and set of tag ids
RowsFor(text_query, tag_set, mode) ==
    {id \in DOMAIN hist.rows :
        /\ hist.rows[id].text_query = text_query
        /\ hist.rows[id].search_mode = mode
        /\ {r[2] : r \in {x \in hist.tags : x[1] = id}} = tag_set}

TagSet(list) == {list[k] : k \in 1..Len(list)}

\* the text query as it is stored: None for a blank one
StoredText(text) == IF text = NoValue \/ text = " " THEN NoValue ELSE text

\* C22: after criteria are saved, once or again, exactly one search-history
\* row holds them (text query, mode and the set of tag ids, whatever the
\* order the ids were given in), and its last_used_at is the time of this
\* latest save.
C22_SaveTwiceOneRow ==
    (hlog # <<>> /\ Recorded(LastSearch)) =>
        LET rows == RowsFor(StoredText(LastSearch.dto.filename_query),
                            TagSet(LastSearch.dto.tag_ids), LastSearch.dto.mode)
        IN  /\ Cardinality(rows) = 1
            /\ \A id \in rows : hist.rows[id].last_used_at = LastSearch.at

\* the same criteria were saved twice, the tag ids in a different order the
\* second time, and one row holds them with the time of the second save
C22_Witness ==
    /\ Len(hlog) = 2
    /\ Recorded(hlog[1]) /\ Recorded(hlog[2])
    /\ hlog[1].dto.tag_ids = <<1, 2>> /\ hlog[2].dto.tag_ids = <<2, 1>>
    /\ hlog[1].dto.filename_query = hlog[2].dto.filename_query
    /\ hlog[1].dto.mode = hlog[2].dto.mode
    /\ Cardinality(DOMAIN hist.rows) = 1
    /\ \A id \in DOMAIN hist.rows : hist.rows[id].last_used_at = hlog[2].at

\* C23: after a combined search with non-empty criteria, or a CQL search
\* with a non-empty query, has returned, the search history holds an entry
\* for that search.
C23_SearchRecorded ==
    hlog # <<>> =>
        /\ Recorded(LastSearch) =>
               RowsFor(StoredText(LastSearch.dto.filename_query),
                       TagSet(LastSearch.dto.tag_ids), LastSearch.dto.mode) # {}
        /\ (LastSearch.op = "search_cql" /\ Trim(LastSearch.query) # "") =>
               \E id \in DOMAIN hist.rows : hist.rows[id].text_query = Trim(LastSearch.query)

(***************************************************************************)
(* The thumbnail pipeline: get_thumbnail tasks, the semaphore, the channel *)
(* and the worker thread.                                                  *)
(***************************************************************************)
Files == {"good", "bad"}    \* a file the shell renders, a file it does not

Holding == {r \in Callers : thumb[r].pc # "idle"}
Waiting(r) == thumb[r].pc = "waiting" /\ thumb[r].reply = "none"

\* a semaphore that hands out permits it does not have; C16_AtMostFour must
\* tell it from the semaphore of the source.
PermitAvailable_Always(n) == TRUE

\* Semaphore::acquire completes when a permit is available
PermitAvailable(n) == n > 0

\* get_thumbnail: semaphore.acquire().await
Acquire(r) ==
    /\ thumb[r].pc = "idle"
    /\ PermitAvailable(semaphore)
    /\ semaphore' = semaphore - 1
    /\ thumb' = [thumb EXCEPT ![r].pc = "permit"]
    /\ UNCHANGED <<chan, worker>>
    /\ UNCHANGED nonThumbVars

\* a permit that is dropped without going back to the semaphore;
\* C36_CallsReturn must tell it from the permit of the source.
DropPermit_Leak(n) == n

\* _permit goes out of scope: the permit is back in the semaphore
DropPermit(n) == n + 1

\* get_thumbnail returns before it reaches the worker: a cache hit (Ok) or a
\* failed read of the cache file (Io); the permit is dropped
ReturnEarly(r) ==
    /\ thumb[r].pc = "permit"
    /\ semaphore' = DropPermit(semaphore)
    /\ thumb' = [thumb EXCEPT ![r] = ThIdle]
    /\ UNCHANGED <<chan, worker>>
    /\ UNCHANGED nonThumbVars

\* ComWorker::generate: sender.send(request).await; the task then awaits the
\* one-shot receiver
Send(r, file) ==
    /\ thumb[r].pc = "permit"
    /\ Len(chan) < ChannelDepth
    /\ chan' = Append(chan, r)
    /\ thumb' = [thumb EXCEPT ![r].pc = "waiting", ![r].file = file,
                              ![r].after = worker.failed]
    /\ UNCHANGED <<semaphore, worker>>
    /\ UNCHANGED nonThumbVars

\* the worker thread: CoInitializeEx succeeds or fails
WorkerInit(ok) ==
    /\ worker.pc = "init"
    /\ worker' = [worker EXCEPT !.pc = IF ok THEN "serving" ELSE "draining"]
    /\ UNCHANGED <<semaphore, thumb, chan>>
    /\ UNCHANGED nonThumbVars

\* a worker that takes the next request while one is in progress;
\* C17_OneGeneration must tell it from the loop of the source.
WorkerFree_Always(w) == TRUE

\* the loop body runs to its end before blocking_recv is called again
WorkerFree(w) == w.cur = {}

\* while let Some(req) = rx.blocking_recv()
WorkerRecv ==
    /\ worker.pc = "serving"
    /\ WorkerFree(worker)
    /\ chan # <<>>
    /\ worker' = [worker EXCEPT !.cur = @ \cup {Head(chan)}]
    /\ chan' = Tail(chan)
    /\ UNCHANGED <<semaphore, thumb>>
    /\ UNCHANGED nonThumbVars

\* process_request: the WebP bytes or the error of generate_thumbnail
ProcessRequest(file) == IF file = "good" THEN "Ok" ELSE "FileNotFound"

\* a worker thread that ends at the first failed request; C19_FailureIsolated
\* must tell it from the loop of the source.
Served_StopOnError(w, r, result) ==
    [w EXCEPT !.cur = @ \ {r},
              !.failed = @ \/ result # "Ok",
              !.pc = IF result = "Ok" THEN @ ELSE "exited"]

\* the worker after one turn of the loop: still in the loop
Served(w, r, result) ==
    [w EXCEPT !.cur = @ \ {r}, !.failed = @ \/ result # "Ok"]

\* let result = process_request(..); let _ = req.response.send(result)
WorkerProcess(r) ==
    /\ worker.pc = "serving"
    /\ r \in worker.cur
    /\ LET result == ProcessRequest(thumb[r].file)
       IN  /\ thumb' = [thumb EXCEPT ![r].reply = result]
           /\ worker' = Served(worker, r, result)
    /\ UNCHANGED <<semaphore, chan>>
    /\ UNCHANGED nonThumbVars

\* a drain loop that drops the request without answering it;
\* C18_ComFailureDrains must tell it from the loop of the source.
DrainReply_Drop(th, r) == th

\* req.response.send(Err(ThumbnailError::Com(e)))
DrainReply(th, r) == [th EXCEPT ![r].reply = "Com"]

\* CoInitializeEx failed: while let Some(req) = rx.blocking_recv() { send Err }
WorkerDrain ==
    /\ worker.pc = "draining"
    /\ chan # <<>>
    /\ thumb' = DrainReply(thumb, Head(chan))
    /\ chan' = Tail(chan)
    /\ UNCHANGED <<semaphore, worker>>
    /\ UNCHANGED nonThumbVars

\* rx.await is answered: the best-effort cache.put on Ok, get_thumbnail
\* returns the answer, the permit is dropped
Return(r) ==
    /\ thumb[r].pc = "waiting"
    /\ thumb[r].reply # "none"
    /\ semaphore' = DropPermit(semaphore)
    /\ thumb' = [thumb EXCEPT ![r] = ThIdle]
    /\ UNCHANGED <<chan, worker>>
    /\ UNCHANGED nonThumbVars

WorkerNext ==
    \/ \E ok \in BOOLEAN : WorkerInit(ok)
    \/ WorkerRecv
    \/ \E r \in Callers : WorkerProcess(r)
    \/ WorkerDrain

ThumbNext ==
    \/ \E r \in Callers : Acquire(r)
    \/ \E r \in Callers : ReturnEarly(r)
    \/ \E r \in Callers, f \in Files : Send(r, f)
    \/ \E r \in Callers : Return(r)
    \/ \E ok \in BOOLEAN : WorkerInit(ok)
    \/ WorkerRecv
    \/ \E r \in Callers : WorkerProcess(r)
    \/ WorkerDrain

ThumbSpec == Init /\ [][ThumbNext]_vars

\* the worker is an OS thread of its own and a task whose one-shot receiver
\* has a value is polled again: both keep running
ThumbFairSpec ==
    /\ Init /\ [][ThumbNext]_vars
    /\ WF_vars(WorkerNext)
    /\ \A r \in Callers : WF_vars(Return(r))

\* besides, a task that holds a permit is polled until it has returned or
\* has handed its request to the worker
ThumbLiveSpec ==
    /\ ThumbFairSpec
    /\ \A r \in Callers : WF_vars(ReturnEarly(r) \/ \E f \in Files : Send(r, f))

\* C16: at most four get_thumbnail calls hold a permit, and at most four
\* requests are in the worker pipeline: at most one being generated and at
\* most three waiting in the channel.
C16_FourInFlight ==
    /\ Cardinality(Holding) <= Permits
    /\ Len(chan) + Cardinality(worker.cur) <= Permits
    /\ Cardinality(worker.cur) <= 1
    /\ Len(chan) <= Permits - 1

\* C16 as the code has it: the four requests in the pipeline may all be
\* waiting in the channel, the worker not having received any of them yet.
C16_AtMostFour ==
    /\ Cardinality(Holding) <= Permits
    /\ Len(chan) + Cardinality(worker.cur) <= Permits
    /\ Cardinality(worker.cur) <= 1
    /\ Len(chan) <= Permits

\* four permits are out, one request is being generated, three wait in the
\* channel, and a fifth task waits for a permit
C16_Witness ==
    /\ Cardinality(Holding) = Permits
    /\ Cardinality(worker.cur) = 1
    /\ Len(chan) = Permits - 1
    /\ \E r \in Callers : thumb[r].pc = "idle"

\* C17: thumbnails are generated on the one worker thread, one at a time: at
\* no moment is more than one generation in progress.
C17_OneGeneration == Cardinality(worker.cur) <= 1

\* a generation is in progress while another request waits in the channel
C17_Witness == worker.cur # {} /\ chan # <<>>

\* C18: when CoInitializeEx fails on the worker thread, every request that is
\* in the channel or is sent later is answered with the COM error; none
\* waits forever.
C18_ComFailureDrains ==
    \A r \in Callers :
        (worker.pc = "draining" /\ Waiting(r)) ~> (thumb[r].reply = "Com")

\* the drain loop has answered a request
C18_Witness == worker.pc = "draining" /\ \E r \in Callers : thumb[r].reply = "Com"

\* C19: a request that fails is answered with the error of its own file, the
\* worker stays in its loop, and a request sent after a failed one is
\* processed and answered.
C19_FailureIsolated ==
    /\ [](\A r \in Callers :
            thumb[r].reply \notin {"none", "Com"}
                => thumb[r].reply = ProcessRequest(thumb[r].file))
    /\ [](worker.failed => worker.pc = "serving")
    /\ \A r \in Callers :
            (thumb[r].pc = "waiting" /\ thumb[r].after)
                ~> (thumb[r].reply = ProcessRequest(thumb[r].file))

\* a request sent after another one had failed got its thumbnail
C19_Witness == \E r \in Callers : thumb[r].after /\ thumb[r].reply = "Ok"

\* C36: every get_thumbnail call returns in the end and gives its permit
\* back on every path, so the permits out are those of the calls in
\* progress, and with the worker thread running the semaphore does not stay
\* empty: a caller waiting for a permit gets one.
C36_CallsReturn ==
    /\ [](semaphore + Cardinality(Holding) = Permits)
    /\ \A r \in Callers : (thumb[r].pc # "idle") ~> (thumb[r].pc = "idle")
    /\ (semaphore = 0) ~> (semaphore > 0)

\* all permits are out, a caller waits for one, and of the calls in progress
\* one is before the cache lookup, one has its answer from the worker and
\* one still waits for it
C36_Witness ==
    /\ semaphore = 0
    /\ \E r \in Callers : thumb[r].pc = "idle"
    /\ \E r \in Callers : thumb[r].pc = "permit"
    /\ \E r \in Callers : thumb[r].pc = "waiting" /\ thumb[r].reply # "none"
    /\ \E r \in Callers : Waiting(r)

(***************************************************************************)
(* The thumbnail disk cache and its eviction.                              *)
(***************************************************************************)
FileSizes == 1..MaxFileSize
Times == 1..MaxTime

RECURSIVE SumSizes(_, _)
SumSizes(c, keys) ==
    IF keys = {} THEN 0
    ELSE LET f == CHOOSE x \in keys : TRUE
         IN  c[f].size + SumSizes(c, keys \ {f})

\* ThumbnailCache::total_size (dir_size)
TotalSize(c) == SumSizes(c, DOMAIN c)

\* what visit_files collects: (path, meta.len(), mtime) of every file
CacheEntries(c) ==
    {[name |-> f, size |-> c[f].size, mtime |-> c[f].mtime] : f \in DOMAIN c}

\* entries.sort_by_key(mtime) that keeps the order of the directory listing;
\* C20_EvictToLimit must tell it from the sort of the source.
SortedScans_Unsorted(c) ==
    LET E == CacheEntries(c)
        n == Cardinality(E)
    IN  {s \in [1..n -> E] : \A i, j \in 1..n : i # j => s[i] # s[j]}

\* entries.sort_by_key(mtime): the entries in ascending mtime; files with the
\* same mtime stay in the order of the directory listing, which is any order
SortedScans(c) ==
    LET E == CacheEntries(c)
        n == Cardinality(E)
    IN  {s \in [1..n -> E] :
            /\ \A i, j \in 1..n : i # j => s[i] # s[j]
            /\ \A i, j \in 1..n : i < j => s[i].mtime <= s[j].mtime}

Evicting == ev.pc # "idle"

\* the model lets one write fall into a run of evict_to_limit
MayWrite == ~Evicting \/ ~ev.interfered

\* ThumbnailCache::put at time t: fs::write creates or replaces the file,
\* which gives it the modification time t
CachePut(f, size, t) ==
    /\ MayWrite
    /\ t >= clock
    /\ clock' = t
    /\ cache' = [g \in DOMAIN cache \cup {f} |->
                    IF g = f THEN [size |-> size, mtime |-> t] ELSE cache[g]]
    /\ used' = [used EXCEPT ![f] = [at |-> t, read |-> FALSE]]
    /\ ev' = [ev EXCEPT !.interfered = @ \/ Evicting]
    /\ UNCHANGED nonCacheVars

\* filetime::set_file_mtime: the file is opened for writing and closed; the
\* time handed in is not used and nothing is written, so the modification
\* time stays what it was
SetFileMtime(c, f, t) == c

\* ThumbnailCache::get on a hit at time t: fs::read, then set_file_mtime
CacheGet(f, t) ==
    /\ MayWrite
    /\ f \in DOMAIN cache
    /\ t >= clock
    /\ clock' = t
    /\ cache' = SetFileMtime(cache, f, t)
    /\ used' = [used EXCEPT ![f] = [at |-> t, read |-> TRUE]]
    /\ ev' = [ev EXCEPT !.interfered = @ \/ Evicting]
    /\ UNCHANGED nonCacheVars

\* evict_to_limit up to the loop: nothing to do when the total is at most
\* max_size_bytes; otherwise the entries are collected and sorted
EvictBegin ==
    /\ ev.pc = "idle"
    /\ IF DOMAIN cache = {} \/ MaxSizeBytes = 0 \/ TotalSize(cache) <= MaxSizeBytes
       THEN ev' = [ev EXCEPT !.pc = "done"]
       ELSE \E s \in SortedScans(cache) :
                ev' = [ev EXCEPT !.pc = "loop", !.entries = s, !.k = 1, !.freed = 0,
                                 !.target = TotalSize(cache) - MaxSizeBytes]
    /\ UNCHANGED <<cache, clock, used>>
    /\ UNCHANGED nonCacheVars

\* one turn of the loop: break when freed >= target, else remove_file, whose
\* failure is skipped; after the loop the function returns Ok(freed)
EvictStep(removed) ==
    /\ ev.pc = "loop"
    /\ IF ev.k > Len(ev.entries) \/ ev.freed >= ev.target
       THEN /\ ev' = [ev EXCEPT !.pc = "done"]
            /\ UNCHANGED cache
       ELSE LET e == ev.entries[ev.k]
            IN  IF removed /\ e.name \in DOMAIN cache
                THEN /\ cache' = Restrict(cache, DOMAIN cache \ {e.name})
                     /\ ev' = [ev EXCEPT !.k = @ + 1, !.freed = @ + e.size,
                                         !.deleted = Append(@, e)]
                ELSE /\ ev' = [ev EXCEPT !.k = @ + 1, !.failed = TRUE]
                     /\ UNCHANGED cache
    /\ UNCHANGED <<clock, used>>
    /\ UNCHANGED nonCacheVars

\* evict_cache returns
EvictReturn ==
    /\ ev.pc = "done"
    /\ ev' = EvIdle
    /\ UNCHANGED <<cache, clock, used>>
    /\ UNCHANGED nonCacheVars

\* the user stores a cache cap of 250 MB before an eviction runs
StoreCacheCap ==
    /\ ev.pc = "idle"
    /\ setlog = <<>>
    /\ SettingsSet("thumbnail_cache_max_mb", "250")

CacheNext ==
    \/ \E f \in CacheKeys, z \in FileSizes, t \in Times : CachePut(f, z, t)
    \/ \E f \in CacheKeys, t \in Times : CacheGet(f, t)
    \/ StoreCacheCap
    \/ EvictBegin
    \/ \E removed \in BOOLEAN : EvictStep(removed)
    \/ EvictReturn

CacheSpec == Init /\ [][CacheNext]_vars

\* evict_to_limit has returned and nothing wrote to the cache while it ran
EvictedAlone == ev.pc = "done" /\ ~ev.interfered

\* the files were deleted oldest first
DeletedInOrder ==
    \A i, j \in 1..Len(ev.deleted) : i < j => ev.deleted[i].mtime <= ev.deleted[j].mtime

\* no deleted file is newer than a file that was kept
DeletedOldest ==
    \A i \in 1..Len(ev.deleted), f \in DOMAIN cache :
        ev.deleted[i].mtime <= cache[f].mtime

ConfiguredCapMb ==
    CASE SettingsGet("thumbnail_cache_max_mb") = "250" -> 250
      [] OTHER -> 500

\* megabytes in the unit of the model, in which the 500 MB handed to
\* ThumbnailCache::new are MaxSizeBytes
MbToBytes(mb) == (mb * MaxSizeBytes) \div 500

\* C21: the eviction run at startup uses the cap configured in the setting
\* thumbnail_cache_max_mb (500 MB when the setting is not stored): after it
\* has completed, alone and with every removal successful, the cache is no
\* larger than the configured cap.
C21_EvictToConfiguredCap ==
    EvictedAlone /\ ~ev.failed => TotalSize(cache) <= MbToBytes(ConfiguredCapMb)

\* the entry deleted at position i went before entry g: g was kept, or was
\* deleted later
DeletedBefore(i, g) ==
    \/ g \in DOMAIN cache
    \/ \E j \in 1..Len(ev.deleted) : i < j /\ ev.deleted[j].name = g

\* C28: a cache entry returned by get becomes the most recently used one:
\* an eviction that begins later does not delete it before an entry whose
\* last write or read happened earlier than that get.
C28_GetRefreshesEntry ==
    EvictedAlone /\ ~ev.failed =>
        \A i \in 1..Len(ev.deleted) : \A g \in CacheKeys :
            (/\ used[ev.deleted[i].name].read
             /\ DeletedBefore(i, g))
                => used[g].at >= used[ev.deleted[i].name].at

\* ------------------------------------------------------------------
\* CQL search: parse_cql builds an expression from the query, expr_to_sql
\* turns the expression into a WHERE fragment and its bound parameters
\* ------------------------------------------------------------------

\* longest IN list of the queries submitted
MaxInList == 2

\* field names as written in a query ("color" is not a field)
CqlFieldNames == {"tag", "Name", "size", "modified", "type", "color"}

\* operators as written in a query
CqlOps == {"=", "~", ">"}

\* the text between the quotes of the quoted strings submitted
CqlQuoted == {"a\\\\*", "Image", "directory", "2024-01-15"}

\* value tokens: the grammar rule that matched and the matched text
CqlLiterals ==
    {[rule |-> "quoted_string", text |-> t] : t \in CqlQuoted}
        \cup {[rule |-> "number", text |-> "5"],
              [rule |-> "size_literal", text |-> "10MB"]}

\* parse trees of the grammar: a node is a comparison, an IN expression, a
\* negation or a conjunction/disjunction of two sub-trees
CqlComparison(f, o, lit) ==
    [kind |-> "comparison", field |-> f, op |-> o, values |-> <<lit>>, args |-> <<>>]

CqlInExpr(f, lits) ==
    [kind |-> "in_expr", field |-> f, op |-> "IN", values |-> lits, args |-> <<>>]

CqlNot(e) ==
    [kind |-> "not", field |-> "", op |-> "", values |-> <<>>, args |-> <<e>>]

CqlBinary(k, l, r) ==
    [kind |-> k, field |-> "", op |-> "", values |-> <<>>, args |-> <<l, r>>]

CqlComparisons ==
    {CqlComparison(f, o, lit) : f \in CqlFieldNames, o \in CqlOps, lit \in CqlLiterals}

CqlValueLists ==
    UNION {[1..n -> {lit \in CqlLiterals : lit.rule # "size_literal"}] : n \in 1..MaxInList}

CqlInExprs == {CqlInExpr(f, lits) : f \in CqlFieldNames, lits \in CqlValueLists}

CqlLeaves == CqlComparisons \cup CqlInExprs

\* the queries submitted, as the parse trees pest hands to build_expression
CqlTrees ==
    CqlLeaves
        \cup {CqlNot(e) : e \in CqlLeaves}
        \cup {CqlBinary(k, l, r) : k \in {"and", "or"}, l \in CqlComparisons,
                                   r \in {c \in CqlComparisons : c.op = "="}}

FirstChar(s) == SubSeq(s, 1, 1)

RestChars(s) == SubSeq(s, 2, Len(s))

UpperLetters == "ABCDEFGHIJKLMNOPQRSTUVWXYZ"

LowerLetters == "abcdefghijklmnopqrstuvwxyz"

\* char::to_lowercase / char::to_uppercase on the ASCII letters
ToLowerChar(c) ==
    IF \E i \in 1..Len(UpperLetters) : SubSeq(UpperLetters, i, i) = c
    THEN LET i == CHOOSE j \in 1..Len(UpperLetters) : SubSeq(UpperLetters, j, j) = c
         IN  SubSeq(LowerLetters, i, i)
    ELSE c

ToUpperChar(c) ==
    IF \E i \in 1..Len(LowerLetters) : SubSeq(LowerLetters, i, i) = c
    THEN LET i == CHOOSE j \in 1..Len(LowerLetters) : SubSeq(LowerLetters, j, j) = c
         IN  SubSeq(UpperLetters, i, i)
    ELSE c

RECURSIVE ToLowercase(_)
ToLowercase(s) ==
    IF s = "" THEN "" ELSE ToLowerChar(FirstChar(s)) \o ToLowercase(RestChars(s))

RECURSIVE ToUppercase(_)
ToUppercase(s) ==
    IF s = "" THEN "" ELSE ToUpperChar(FirstChar(s)) \o ToUppercase(RestChars(s))

EndsWith(s, suffix) ==
    /\ Len(s) >= Len(suffix)
    /\ SubSeq(s, Len(s) - Len(suffix) + 1, Len(s)) = suffix

\* Field::from_str: the name is matched in lower case
FieldFromStr(s) ==
    CASE ToLowercase(s) = "tag"      -> "Tag"
      [] ToLowercase(s) = "name"     -> "Name"
      [] ToLowercase(s) = "size"     -> "Size"
      [] ToLowercase(s) = "modified" -> "Modified"
      [] ToLowercase(s) = "type"     -> "Type"
      [] OTHER -> NoValue

\* ComparisonOp::from_str
ComparisonOpFromStr(s) ==
    CASE s = "="  -> "Eq"
      [] s = "!=" -> "NotEq"
      [] s = ">"  -> "Gt"
      [] s = "<"  -> "Lt"
      [] s = ">=" -> "Gte"
      [] s = "<=" -> "Lte"
      [] s = "~"  -> "Like"
      [] OTHER -> NoValue

\* the variants of ast::Value; s holds a string payload, n a numeric one
ValueString(s) == [type |-> "String", s |-> s, n |-> 0]

ValueNumber(n) == [type |-> "Number", s |-> "", n |-> n]

ValueSizeBytes(n) == [type |-> "SizeBytes", s |-> "", n |-> n]

ValueTimestamp(n) == [type |-> "Timestamp", s |-> "", n |-> n]

ParseOk(x) == [ok |-> TRUE, err |-> "", val |-> x]

ParseErr(e) == [ok |-> FALSE, err |-> e, val |-> <<>>]

\* unescape_string: \" \\ \n \t are replaced, any other escape is kept
RECURSIVE UnescapeString(_)
UnescapeString(s) ==
    IF s = "" THEN ""
    ELSE IF FirstChar(s) # "\\" THEN FirstChar(s) \o UnescapeString(RestChars(s))
    ELSE IF Len(s) = 1 THEN "\\"
    ELSE LET next == SubSeq(s, 2, 2)
             rest == UnescapeString(SubSeq(s, 3, Len(s)))
         IN  CASE next = "\"" -> "\"" \o rest
               [] next = "\\" -> "\\" \o rest
               [] next = "n"  -> "\n" \o rest
               [] next = "t"  -> "\t" \o rest
               [] OTHER       -> "\\" \o next \o rest

Digits == "0123456789"

IsDigit(c) == \E i \in 1..Len(Digits) : SubSeq(Digits, i, i) = c

DigitValue(c) == (CHOOSE i \in 1..Len(Digits) : SubSeq(Digits, i, i) = c) - 1

RECURSIVE DigitsValue(_, _)
DigitsValue(s, acc) ==
    IF s = "" THEN acc ELSE DigitsValue(RestChars(s), acc * 10 + DigitValue(FirstChar(s)))

\* str::parse on an unsigned decimal numeral
ParseNumber(s) ==
    IF s # "" /\ \A i \in 1..Len(s) : IsDigit(SubSeq(s, i, i))
    THEN ParseOk(DigitsValue(s, 0))
    ELSE ParseErr("Invalid number")

\* str::split('-')
RECURSIVE SplitDash(_, _)
SplitDash(s, cur) ==
    IF s = "" THEN <<cur>>
    ELSE IF FirstChar(s) = "-" THEN <<cur>> \o SplitDash(RestChars(s), "")
    ELSE SplitDash(RestChars(s), cur \o FirstChar(s))

\* ymd_to_unix: days from the civil date, times the seconds of a day
YmdToUnix(year, month, day) ==
    LET y    == IF month <= 2 THEN year - 1 ELSE year
        era  == y \div 400
        yoe  == y - era * 400
        doy  == (153 * (IF month > 2 THEN month - 3 ELSE month + 9) + 2) \div 5 + day - 1
        doe  == yoe * 365 + yoe \div 4 - yoe \div 100 + doy
        days == era * 146097 + doe - 719468
    IN  days * 86400

\* parse_date_to_timestamp: "YYYY-MM-DD" to the timestamp of its midnight
ParseDateToTimestamp(s) ==
    LET parts == SplitDash(s, "")
    IN  IF Len(parts) # 3 THEN ParseErr("InvalidDate")
        ELSE LET year  == ParseNumber(parts[1])
                 month == ParseNumber(parts[2])
                 day   == ParseNumber(parts[3])
             IN  IF ~year.ok \/ ~month.ok \/ ~day.ok THEN ParseErr("InvalidDate")
                 ELSE IF \/ month.val < 1 \/ month.val > 12
                         \/ day.val < 1 \/ day.val > 31
                         \/ year.val < 1970
                 THEN ParseErr("InvalidDate")
                 ELSE ParseOk(YmdToUnix(year.val, month.val, day.val))

\* parse_size_to_bytes: a numeral followed by GB, MB, KB or B in any case
ParseSizeToBytes(s) ==
    LET upper == ToUppercase(s)
        cut   == CASE EndsWith(upper, "GB") -> <<2, 1073741824>>
                   [] EndsWith(upper, "MB") -> <<2, 1048576>>
                   [] EndsWith(upper, "KB") -> <<2, 1024>>
                   [] EndsWith(upper, "B")  -> <<1, 1>>
                   [] OTHER -> <<0, 0>>
    IN  IF cut[1] = 0 THEN ParseErr("InvalidSize")
        ELSE LET num == ParseNumber(SubSeq(s, 1, Len(s) - cut[1]))
             IN  IF num.ok THEN ParseOk(num.val * cut[2]) ELSE ParseErr("InvalidSize")

\* parse_value: the token becomes a Value, coerced by the field it stands
\* next to (a quoted string on modified is a date, a number on size is a
\* byte count, a number on modified is a timestamp)
ParseValue(lit, field) ==
    CASE lit.rule = "quoted_string" ->
            LET unescaped == UnescapeString(lit.text)
            IN  IF field = "Modified"
                THEN LET ts == ParseDateToTimestamp(unescaped)
                     IN  IF ts.ok THEN ParseOk(ValueTimestamp(ts.val)) ELSE ts
                ELSE ParseOk(ValueString(unescaped))
      [] lit.rule = "size_literal" ->
            LET bytes == ParseSizeToBytes(lit.text)
            IN  IF bytes.ok THEN ParseOk(ValueSizeBytes(bytes.val)) ELSE bytes
      [] lit.rule = "number" ->
            LET n == ParseNumber(lit.text)
            IN  IF ~n.ok THEN n
                ELSE IF field = "Size" THEN ParseOk(ValueSizeBytes(n.val))
                ELSE IF field = "Modified" THEN ParseOk(ValueTimestamp(n.val))
                ELSE ParseOk(ValueNumber(n.val))
      [] OTHER -> ParseErr("Unexpected value rule")

\* the values of a node parsed in order; the first failure is the result
ParseValues(lits, field) ==
    LET vals == [i \in 1..Len(lits) |-> ParseValue(lits[i], field)]
        bad  == {i \in 1..Len(lits) : ~vals[i].ok}
    IN  IF bad = {} THEN ParseOk([i \in 1..Len(lits) |-> vals[i].val])
        ELSE vals[CHOOSE i \in bad : \A j \in bad : i <= j]

\* the nodes of ast::Expr
ExprNode(k, f, o, vals, sub) ==
    [kind |-> k, field |-> f, op |-> o, values |-> vals, args |-> sub]

\* build_expression with build_comparison and build_in_expr: the parse tree
\* becomes an Expr, or the first error met from left to right
RECURSIVE BuildExpression(_)
BuildExpression(t) ==
    CASE t.kind = "comparison" ->
            LET field == FieldFromStr(t.field)
                op    == ComparisonOpFromStr(t.op)
            IN  IF field = NoValue THEN ParseErr("InvalidField")
                ELSE IF op = NoValue THEN ParseErr("Unknown operator")
                ELSE LET vals == ParseValues(t.values, field)
                     IN  IF vals.ok
                         THEN ParseOk(ExprNode("Comparison", field, op, vals.val, <<>>))
                         ELSE vals
      [] t.kind = "in_expr" ->
            LET field == FieldFromStr(t.field)
            IN  IF field = NoValue THEN ParseErr("InvalidField")
                ELSE LET vals == ParseValues(t.values, field)
                     IN  IF vals.ok
                         THEN ParseOk(ExprNode("InExpr", field, "IN", vals.val, <<>>))
                         ELSE vals
      [] t.kind = "not" ->
            LET inner == BuildExpression(t.args[1])
            IN  IF inner.ok THEN ParseOk(ExprNode("Not", "", "", <<>>, <<inner.val>>))
                ELSE inner
      [] OTHER ->
            LET left  == BuildExpression(t.args[1])
                right == BuildExpression(t.args[2])
            IN  IF ~left.ok THEN left
                ELSE IF ~right.ok THEN right
                ELSE ParseOk(ExprNode(IF t.kind = "and" THEN "And" ELSE "Or", "", "",
                                      <<>>, <<left.val, right.val>>))

\* validate_field_op: the operators each field supports
ValidateFieldOp(field, op) ==
    CASE field \in {"Tag", "Name"}      -> op \in {"Eq", "NotEq", "Like"}
      [] field \in {"Size", "Modified"} -> op \in {"Eq", "NotEq", "Gt", "Lt", "Gte", "Lte"}
      [] OTHER                          -> op \in {"Eq", "NotEq"}

\* validate_semantics: operator and field of every node fit together; IN is
\* for tag, name and type
RECURSIVE ValidateSemantics(_)
ValidateSemantics(e) ==
    CASE e.kind = "Comparison" -> ValidateFieldOp(e.field, e.op)
      [] e.kind = "InExpr"     -> e.field \in {"Tag", "Name", "Type"}
      [] e.kind = "Not"        -> ValidateSemantics(e.args[1])
      [] OTHER -> ValidateSemantics(e.args[1]) /\ ValidateSemantics(e.args[2])

\* the last step of parse_cql: an expression that was built is validated
Validated(built) ==
    IF ~built.ok THEN built
    ELSE IF ValidateSemantics(built.val) THEN built
    ELSE ParseErr("InvalidOperator")

\* parse_cql on a query the grammar matched as tree t
ParseCql(t) == Validated(BuildExpression(t))

\* glob_to_like: * and ? become % and _, and % _ \ are escaped with \
RECURSIVE GlobToLike(_)
GlobToLike(glob) ==
    IF glob = "" THEN ""
    ELSE LET ch == FirstChar(glob)
         IN  (CASE ch = "*"  -> "%"
                [] ch = "?"  -> "_"
                [] ch = "%"  -> "\\%"
                [] ch = "_"  -> "\\_"
                [] ch = "\\" -> "\\\\"
                [] OTHER     -> ch) \o GlobToLike(RestChars(glob))

\* type_to_extensions with a list cut short
TypeToExtensions_Short(type_name) ==
    CASE type_name = "image" -> <<".jpg", ".jpeg", ".png">>
      [] OTHER -> <<>>

\* type_to_extensions: the file extensions of a type name
TypeToExtensions(type_name) ==
    CASE type_name = "image" ->
            <<".jpg", ".jpeg", ".png", ".gif", ".bmp", ".webp", ".svg", ".ico", ".tiff",
              ".tif">>
      [] type_name = "video" ->
            <<".mp4", ".avi", ".mkv", ".mov", ".wmv", ".flv", ".webm", ".m4v">>
      [] type_name = "document" ->
            <<".pdf", ".doc", ".docx", ".xls", ".xlsx", ".ppt", ".pptx", ".txt", ".csv",
              ".rtf">>
      [] type_name = "audio" ->
            <<".mp3", ".wav", ".flac", ".aac", ".ogg", ".wma", ".m4a">>
      [] type_name = "archive" ->
            <<".zip", ".rar", ".7z", ".tar", ".gz", ".bz2", ".xz">>
      [] OTHER -> <<>>

\* rusqlite::types::Value::Text and ::Integer
SqlText(s) == [type |-> "Text", s |-> s, n |-> 0]

SqlInteger(n) == [type |-> "Integer", s |-> "", n |-> n]

\* the builder's state: the parameters pushed so far, the alias counter, and
\* whether an unreachable!() was hit
NewBuild == [params |-> <<>>, counter |-> 0, panicked |-> FALSE]

Push(b, p) == [b EXCEPT !.params = Append(@, p)]

Unreachable(b) == [b EXCEPT !.panicked = TRUE]

\* extract_string, extract_size, extract_timestamp: the payload of the
\* variants they accept
ExtractString(v) == [ok |-> v.type = "String", s |-> v.s]

ExtractSize(v) == [ok |-> v.type \in {"SizeBytes", "Number"}, n |-> v.n]

ExtractTimestamp(v) == [ok |-> v.type \in {"Timestamp", "Number"}, n |-> v.n]

\* comparison_op_to_sql is defined for every operator but LIKE
ComparisonOpToSqlOk(op) == op # "Like"

BuildTagComparisonSql(op, value, b) ==
    LET b1 == [b EXCEPT !.counter = @ + 1]
        s  == ExtractString(value)
    IN  IF op \notin {"Eq", "NotEq", "Like"} \/ ~s.ok THEN Unreachable(b1)
        ELSE Push(b1, SqlText(IF op = "Like" THEN GlobToLike(s.s) ELSE s.s))

BuildNameSql(op, value, b) ==
    LET s == ExtractString(value)
    IN  IF ~s.ok \/ op \notin {"Eq", "NotEq", "Like"} THEN Unreachable(b)
        ELSE Push(b, SqlText(IF op = "Like" THEN ToLowercase(GlobToLike(s.s))
                                            ELSE ToLowercase(s.s)))

BuildSizeSql(op, value, b) ==
    LET bytes == ExtractSize(value)
    IN  IF ~bytes.ok THEN Unreachable(b)
        ELSE IF ~ComparisonOpToSqlOk(op) THEN Unreachable(Push(b, SqlInteger(bytes.n)))
        ELSE Push(b, SqlInteger(bytes.n))

BuildModifiedSql(op, value, b) ==
    LET ts == ExtractTimestamp(value)
    IN  IF ~ts.ok THEN Unreachable(b)
        ELSE IF ~ComparisonOpToSqlOk(op) THEN Unreachable(Push(b, SqlInteger(ts.n)))
        ELSE Push(b, SqlInteger(ts.n))

\* one parameter "%<ext>" per extension, in order
RECURSIVE PushExtensions(_, _)
PushExtensions(extensions, b) ==
    IF extensions = <<>> THEN b
    ELSE PushExtensions(Tail(extensions), Push(b, SqlText("%" \o Head(extensions))))

BuildTypeSql(op, value, b) ==
    LET s == ExtractString(value)
    IN  IF ~s.ok THEN Unreachable(b)
        ELSE LET type_name == ToLowercase(s.s)
             IN  IF type_name = "directory" \/ TypeToExtensions(type_name) = <<>>
                 THEN IF op \in {"Eq", "NotEq"} THEN b ELSE Unreachable(b)
                 ELSE LET b1 == PushExtensions(TypeToExtensions(type_name), b)
                      IN  IF op \in {"Eq", "NotEq"} THEN b1 ELSE Unreachable(b1)

BuildComparisonSql(field, op, value, b) ==
    CASE field = "Tag"      -> BuildTagComparisonSql(op, value, b)
      [] field = "Name"     -> BuildNameSql(op, value, b)
      [] field = "Size"     -> BuildSizeSql(op, value, b)
      [] field = "Modified" -> BuildModifiedSql(op, value, b)
      [] OTHER              -> BuildTypeSql(op, value, b)

\* the loops of build_tag_in_sql and of the name arm of build_in_sql: one
\* parameter per value, until a value is not a string
RECURSIVE PushStrings(_, _, _)
PushStrings(values, lower, b) ==
    IF values = <<>> THEN b
    ELSE LET s == ExtractString(Head(values))
         IN  IF ~s.ok THEN Unreachable(b)
             ELSE PushStrings(Tail(values), lower,
                              Push(b, SqlText(IF lower THEN ToLowercase(s.s) ELSE s.s)))

\* the loop of the type arm of build_in_sql
RECURSIVE PushTypes(_, _)
PushTypes(values, b) ==
    IF values = <<>> THEN b
    ELSE LET s == ExtractString(Head(values))
         IN  IF ~s.ok THEN Unreachable(b)
             ELSE IF ToLowercase(s.s) = "directory" THEN PushTypes(Tail(values), b)
             ELSE PushTypes(Tail(values),
                            PushExtensions(TypeToExtensions(ToLowercase(s.s)), b))

BuildInSql(field, values, b) ==
    CASE field = "Tag"  -> PushStrings(values, FALSE, [b EXCEPT !.counter = @ + 1])
      [] field = "Name" -> PushStrings(values, TRUE, b)
      [] field = "Type" -> PushTypes(values, b)
      [] OTHER          -> Unreachable(b)

\* build_sql: the expression is walked left to right; a panic ends the walk
RECURSIVE BuildSql(_, _)
BuildSql(e, b) ==
    IF b.panicked THEN b
    ELSE CASE e.kind = "Comparison" -> BuildComparisonSql(e.field, e.op, e.values[1], b)
           [] e.kind = "InExpr"     -> BuildInSql(e.field, e.values, b)
           [] e.kind = "Not"        -> BuildSql(e.args[1], b)
           [] OTHER                 -> BuildSql(e.args[2], BuildSql(e.args[1], b))

\* expr_to_sql: the parameters of the fragment (its SQL text has one
\* placeholder per parameter and is left out)
ExprToSql(e) == BuildSql(e, NewBuild)

\* the locals of search_cql once parse_cql has returned
AfterParse(t, parsed) ==
    IF parsed.ok
    THEN [stage |-> "parsed", query |-> t, expr |-> parsed.val, fragment |-> <<>>]
    ELSE [stage |-> "rejected", query |-> t, expr |-> <<>>, fragment |-> <<>>]

\* search_cql, first step: the query is parsed; a rejected query returns
\* its error
SearchCqlParse(t) ==
    /\ cql.stage = "idle"
    /\ cql' = AfterParse(t, ParseCql(t))
    /\ UNCHANGED nonCqlVars

\* search_cql, second step: the expression is compiled; the task ends there
\* when the executor panics
SearchCqlCompile ==
    /\ cql.stage = "parsed"
    /\ LET built == ExprToSql(cql.expr)
       IN  cql' = [cql EXCEPT !.stage = IF built.panicked THEN "panicked" ELSE "compiled",
                              !.fragment = built]
    /\ UNCHANGED nonCqlVars

\* search_cql is over: the rows or the error went back to the caller
SearchCqlReturn ==
    /\ cql.stage \in {"rejected", "compiled", "panicked"}
    /\ cql' = CqlIdle
    /\ UNCHANGED nonCqlVars

CqlNext ==
    \/ \E t \in CqlTrees : SearchCqlParse(t)
    \/ SearchCqlCompile
    \/ SearchCqlReturn

CqlSpec == Init /\ [][CqlNext]_vars

\* the literal values of a query: comparison values and IN-list elements
RECURSIVE LiteralCount(_)
LiteralCount(t) ==
    CASE t.kind \in {"comparison", "in_expr"} -> Len(t.values)
      [] t.kind = "not" -> LiteralCount(t.args[1])
      [] OTHER -> LiteralCount(t.args[1]) + LiteralCount(t.args[2])

\* the number of file extensions the type literals stand for
ExtensionCount(text) ==
    CASE text \in {"image", "Image", "IMAGE"} -> 10
      [] text \in {"video", "Video", "VIDEO"} -> 8
      [] text \in {"document", "Document", "DOCUMENT"} -> 10
      [] text \in {"audio", "Audio", "AUDIO"} -> 7
      [] text \in {"archive", "Archive", "ARCHIVE"} -> 7
      [] OTHER -> 0

RECURSIVE SumExtensions(_)
SumExtensions(lits) ==
    IF lits = <<>> THEN 0 ELSE ExtensionCount(Head(lits).text) + SumExtensions(Tail(lits))

\* the parameters a query needs: one per literal on tag, name, size and
\* modified, and one per file extension of each literal on type
RECURSIVE ParamCount(_)
ParamCount(t) ==
    CASE t.kind \in {"comparison", "in_expr"} ->
            IF t.field \in {"type", "Type", "TYPE"} THEN SumExtensions(t.values)
            ELSE Len(t.values)
      [] t.kind = "not" -> ParamCount(t.args[1])
      [] OTHER -> ParamCount(t.args[1]) + ParamCount(t.args[2])

C40_AcceptedCompiles == cql.stage # "panicked"

====
